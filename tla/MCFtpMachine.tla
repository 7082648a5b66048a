---------------------------- MODULE MCFtpMachine ----------------------------
(***************************************************************************)
(* Sessions of one or two commands each: every command once, and each kind *)
(* of trouble with the commands it is about.  A second command shows what  *)
(* the first one has left unread.  Or the protection of a session, between *)
(* machines whose addresses lie in any order.                              *)
(***************************************************************************)
EXTENDS FtpMachine

CONSTANTS SealedSession, Nothing

VARIABLES grain, sealed, place, sec, stream, service, tickets, passive, retry, retries,
          jobs, told, out, in, srv

fvars == vars
svars == <<sealed, place, sec, stream, service, tickets, passive, retry, retries, jobs, told,
           out, in, srv>>

S == INSTANCE FtpSecurity WITH
       session <- sealed, Session <- SealedSession, at <- place, retryOp <- retry, None <- Nothing

ASSUME SealedAssumption == S!SecurityAssumption

-----------------------------------------------------------------------------

Calm == [jobs |-> <<>>, passive |-> TRUE, secure |-> FALSE, aborts |-> 0,
         timely |-> TRUE, disk |-> FALSE, steady |-> TRUE, drops |-> FALSE,
         closes |-> FALSE]

Sessions ==
  { [Calm EXCEPT !.jobs = <<"mget", "quit">>, !.secure = TRUE],
    [Calm EXCEPT !.jobs = <<"mput", "cd">>, !.passive = FALSE],
    [Calm EXCEPT !.jobs = <<"dir", "rename">>, !.drops = TRUE],
    [Calm EXCEPT !.jobs = <<"get", "delete">>, !.drops = TRUE, !.closes = TRUE],
    [Calm EXCEPT !.jobs = <<"mget", "delete">>, !.drops = TRUE],
    [Calm EXCEPT !.jobs = <<"mget", "delete">>, !.aborts = 1, !.closes = TRUE],
    [Calm EXCEPT !.jobs = <<"get", "dir">>, !.aborts = 1, !.timely = FALSE],
    [Calm EXCEPT !.jobs = <<"put", "cd">>, !.aborts = 1, !.timely = FALSE,
                 !.steady = FALSE],
    [Calm EXCEPT !.jobs = <<"get", "cd">>, !.disk = TRUE, !.closes = TRUE],
    [Calm EXCEPT !.secure = TRUE, !.aborts = 1, !.timely = FALSE, !.drops = TRUE,
                 !.closes = TRUE] }

-----------------------------------------------------------------------------
(* Protected sessions: the server has address 5, this machine 4 or 6 *)

Direct == [own |-> 4, seen |-> 4, was |-> 8, server |-> 5, speaks |-> 5, equiv |-> {}, nat |-> FALSE, reverse |-> FALSE,
           firewall |-> 0, lenient |-> FALSE, old |-> "none", service |-> "ftp",
           user |-> "named", mech |-> TRUE, afs |-> FALSE, foreign |-> FALSE,
           willing |-> TRUE, jobs |-> <<"kauth", "klist", "kdestroy">>]

Unsealed == [Direct EXCEPT !.mech = FALSE, !.jobs = <<>>]

\* Where the machine is, what others see, where it was, and what is set
Between ==
  { [Direct EXCEPT !.own = o, !.seen = s, !.was = w, !.nat = t, !.old = d, !.lenient = l,
                   !.afs = a, !.service = v, !.jobs = <<"klist">>] :
      o \in {4, 6}, s \in {4, 6}, w \in {2, 8}, t \in BOOLEAN, l \in BOOLEAN,
      d \in {"none", "tgt", "service"}, a \in BOOLEAN, v \in {"ftp", "rcmd"} }

Walled ==
  { [Direct EXCEPT !.own = o, !.seen = s, !.firewall = s, !.reverse = r, !.lenient = TRUE,
                   !.jobs = <<"afslog">>] :
      o \in {3, 4, 6, 7}, s \in {3, 4, 6, 7}, r \in BOOLEAN }

\* A server of several addresses
Manifold ==
  { [Direct EXCEPT !.speaks = p, !.equiv = e, !.jobs = <<"klist">>] :
      p \in {3, 5, 9}, e \in {{}, {{3, 5, 9}}, {{3, 5}, {9}}} }

Sealed ==
  {Unsealed} \cup Between \cup Walled \cup Manifold
  \cup { [Direct EXCEPT !.user = u, !.mech = m, !.afs = a, !.foreign = f, !.willing = w,
                        !.jobs = IF m THEN @ ELSE <<"kauth", "klist", "afslog">>] :
            u \in {"named", "unnamed", "anonymous"}, m \in BOOLEAN, a \in BOOLEAN,
            f \in BOOLEAN, w \in BOOLEAN }

-----------------------------------------------------------------------------

MCInit ==
  /\ Init /\ S!Init
  /\ \/ grain = "transfers" /\ sealed = Unsealed
     \/ grain = "seals" /\ session.jobs = <<>>
        /\ replies = <<[of |-> None, code |-> 500]>>

MCNext ==
  \/ grain = "transfers" /\ Next /\ UNCHANGED <<grain, svars>>
  \/ grain = "seals" /\ S!Next /\ UNCHANGED <<grain, fvars>>

MCSpec ==
  /\ MCInit /\ [][MCNext]_<<grain, fvars, svars>>
  /\ WF_fvars(grain = "transfers" /\ Machine) /\ WF_fvars(grain = "transfers" /\ ControlEnds)
  /\ WF_fvars(grain = "transfers" /\ (Receive \/ EndOfData))
  /\ WF_fvars(grain = "transfers" /\ Server) /\ WF_fvars(grain = "transfers" /\ Reopen)
  /\ WF_svars(grain = "seals" /\ S!Machine) /\ WF_svars(grain = "seals" /\ S!User)
  /\ WF_svars(grain = "seals" /\ S!Serve)

-----------------------------------------------------------------------------
(* Properties of protected sessions, under their names *)

Understood == S!Understood
ToldIsTrue == S!ToldIsTrue
LoginEnds == grain = "transfers" \/ S!LoginEnds
=============================================================================
