----------------------------- MODULE MCTickets -----------------------------
(***************************************************************************)
(* Sessions of the shared tickets: expired tickets; two clients of one     *)
(* user; one client with two users; a full vector; and a client and the     *)
(* manager that interleave at every access.                                 *)
(***************************************************************************)
EXTENDS Tickets, TLC

CONSTANTS c1, c2, r1, r2, u1, u2

One == [r \in Realm |-> u1]
Two == r1 :> u1 @@ r2 :> u2

Rcmd(r) == [service |-> "rcmd", realm |-> r]
Tgt(r)  == [service |-> "krbtgt", realm |-> r]

Held(service, r, u, good) == Rec(service, r, u, u, good, 0)

Plain == [first |-> <<>>, asks |-> [p \in Proc |-> <<>>], user |-> One, apart |-> TRUE,
          willing |-> TRUE, clears |-> 0, changes |-> 0]

Sessions ==
  { [Plain EXCEPT !.asks = c1 :> <<Rcmd(r1), Rcmd(r1)>> @@ c2 :> <<>> @@ Mgr :> <<>>,
                  !.first = <<Held("krbtgt", r1, u1, FALSE), Held("krbtgt", r2, u1, TRUE),
                              Held("rcmd", r1, u1, FALSE)>>],
    [Plain EXCEPT !.asks = c1 :> <<Rcmd(r1)>> @@ c2 :> <<Rcmd(r1)>> @@ Mgr :> <<>>,
                  !.first = <<Held("krbtgt", r1, u1, FALSE), Held("rcmd", r1, u1, FALSE)>>],
    [Plain EXCEPT !.asks = c1 :> <<Rcmd(r1), Rcmd(r2), Rcmd(r1)>> @@ c2 :> <<>> @@ Mgr :> <<>>,
                  !.user = Two, !.willing = FALSE,
                  !.first = <<Held("krbtgt", r1, u1, TRUE)>>],
    [Plain EXCEPT !.asks = c1 :> <<Rcmd(r1)>> @@ c2 :> <<>> @@ Mgr :> <<Tgt(r2)>>,
                  !.willing = FALSE, !.changes = 1,
                  !.first = [n \in 1..CRED_VEC_SZ |-> Held("krbtgt", r1, u1, TRUE)]],
    [Plain EXCEPT !.asks = c1 :> <<Rcmd(r1)>> @@ c2 :> <<>> @@ Mgr :> <<Tgt(r2)>>,
                  !.apart = FALSE, !.clears = 1,
                  !.first = [n \in 1..CRED_VEC_SZ |-> Held("krbtgt", r1, u1, TRUE)]] }
=============================================================================
