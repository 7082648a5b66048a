----------------------------- MODULE MCPopProxy -----------------------------
(***************************************************************************)
(* Sessions of the POP proxy: the relay with both sides sending, a log in   *)
(* where everything may go wrong, clients that come one after the other,    *)
(* and the notes that fall between recv and Reset.  Or the windows of the   *)
(* proxy, of the ticket manager and of the programs that ask for it.        *)
(***************************************************************************)
EXTENDS PopProxy, FiniteSets

CONSTANTS Proc, StartSession, Tries, LogSize, Nobody

VARIABLES grain, desktop, proc, order, kept, waiting, steps

pvars == <<desktop, proc, order, kept, waiting, steps>>

P == INSTANCE Programs WITH Session <- StartSession, session <- desktop, None <- Nobody

ASSUME P!ProgramsAssumption

Plain == [lines |-> {"USER", "PASS"}, items |-> 2, clients |-> 1, calm |-> TRUE,
          fails |-> FALSE, refuses |-> FALSE, stops |-> FALSE, remote |-> FALSE, breaks |-> FALSE]

Sessions ==
  { Plain,
    [Plain EXCEPT !.calm = FALSE, !.items = 0, !.clients = 2, !.lines = {"PASS", "QUIT"}],
    [Plain EXCEPT !.lines = Lines, !.items = 0, !.refuses = TRUE, !.fails = TRUE],
    [Plain EXCEPT !.breaks = TRUE, !.items = 1],
    [Plain EXCEPT !.items = 1, !.stops = TRUE, !.refuses = TRUE, !.remote = TRUE] }

-----------------------------------------------------------------------------
(* What users start, and how windows are set up *)

Run(exe, args) == [exe |-> exe, args |-> args]

Quiet == [starts |-> {}, manager |-> "own", normal |-> TRUE, tray |-> FALSE, shell |-> {TRUE}, winsock |-> {TRUE}, talks |-> <<>>, steps |-> 3]

Starts ==
  {Quiet}
  \cup {[Quiet EXCEPT !.starts = {Run("ktelnet", <<>>), Run("ktelnet", <<"-m", "-d">>)}, !.normal = n, !.tray = t, !.shell = BOOLEAN] :
          n \in BOOLEAN, t \in BOOLEAN}
  \cup {[Quiet EXCEPT !.starts = {Run("ktelnet", <<>>)}, !.normal = FALSE, !.tray = TRUE, !.steps = 5]}
  \cup {[Quiet EXCEPT !.starts = {Run("proxy", <<"-d">>), Run("kftp", <<>>)}, !.manager = m, !.normal = FALSE, !.tray = t, !.winsock = BOOLEAN] :
          m \in {"own", "ktelnet", "broken"}, t \in BOOLEAN}
  \cup {[Quiet EXCEPT !.starts = {Run("kftp", <<>>)}, !.talks = <<2, 1, 2, 2>>, !.steps = 2]}

-----------------------------------------------------------------------------

MCInit ==
  /\ Init /\ P!Init
  /\ \/ grain = "relay" /\ desktop = Quiet
     \/ grain = "windows" /\ session = Plain /\ desktop # Quiet

MCNext ==
  \/ grain = "relay" /\ Next /\ UNCHANGED <<grain, pvars>>
  \/ grain = "windows" /\ P!Next /\ UNCHANGED <<grain, vars>>

\* The fairness of each, for as long as it is its turn.
MCSpec ==
  /\ MCInit /\ [][MCNext]_<<grain, vars, pvars>>
  /\ WF_vars(grain = "relay" /\ Thread) /\ WF_vars(grain = "relay" /\ EvProxyNote) /\ WF_vars(grain = "relay" /\ ServerLine)
  /\ SF_vars(grain = "relay" /\ UpSend /\ upOut' # upOut) /\ SF_vars(grain = "relay" /\ DownSend /\ downOut' # downOut)
  /\ \A p \in Proc : WF_pvars(grain = "windows" /\ P!Runs(p))

-----------------------------------------------------------------------------
(* The property of the windows, under its name *)

WindowsServe == P!WindowsServe
=============================================================================
