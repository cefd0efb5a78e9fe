----------------------------- MODULE QueryService -----------------------------
(***************************************************************************)
(* What the mesh promises a client of Gateway::Execute, with no gateways,   *)
(* routes or sockets in it.  A client makes one query.  If the statement    *)
(* can be routed, shard executors may run it, any number of times and even  *)
(* after the answer (a retry repeats what a lost response hid).  The answer *)
(* is an executor's verdict only if one ran; a transport failure promises   *)
(* nothing either way; a statement that cannot be routed never runs.        *)
(***************************************************************************)
EXTENDS Naturals

CONSTANTS Client, NoAnswer

Verdict == {"Ok", "ExecutionError"}
TransportFailure == {"RouteExhausted", "ShardUnavailable"}

VARIABLES
  phase,     \* new, asked, answered
  routable,  \* the statement has a table and a distribution key
  runs,      \* how often executors ran it
  result     \* the answer

svars == <<phase, routable, runs, result>>

Init ==
  /\ phase = [c \in Client |-> "new"]
  /\ routable = [c \in Client |-> FALSE]
  /\ runs = [c \in Client |-> 0]
  /\ result = [c \in Client |-> NoAnswer]

Ask(c) ==
  /\ phase[c] = "new"
  /\ phase' = [phase EXCEPT ![c] = "asked"]
  /\ \E b \in BOOLEAN : routable' = [routable EXCEPT ![c] = b]
  /\ UNCHANGED <<runs, result>>

Run(c) ==
  /\ phase[c] # "new" /\ routable[c]
  /\ runs' = [runs EXCEPT ![c] = @ + 1]
  /\ UNCHANGED <<phase, routable, result>>

Answer(c) ==
  /\ phase[c] = "asked"
  /\ phase' = [phase EXCEPT ![c] = "answered"]
  /\ \E status \in Verdict \cup TransportFailure \cup {"UnsupportedSql"} :
       /\ status \in Verdict => runs[c] > 0
       /\ status = "UnsupportedSql" <=> ~routable[c]
       /\ result' = [result EXCEPT ![c] = status]
  /\ UNCHANGED <<routable, runs>>

Next == \E c \in Client : Ask(c) \/ Run(c) \/ Answer(c)

Spec == Init /\ [][Next]_svars
================================================================================
