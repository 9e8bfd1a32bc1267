--------------------------- MODULE QueryServerProofs ---------------------------
(***************************************************************************)
(* What the query server runs, and what its client receives, for every set *)
(* of commands and --db options and any number of stuck probes.            *)
(***************************************************************************)
EXTENDS QueryServer, TLAPS

Idle    == {"none", "start", "reading"}
Command == {"running", "handling", "closing", "composing"}
Clauses == {"timeout", "error", "finally"}

\* The response is written only in the last clause, with the alarm off, and a
\* client that is still there when the server ends has been sent all of it.
QueryInv ==
  /\ request = NoRequest \/ request.dbs \in Seq({"host", "other"})
  /\ server \in Idle \union Command \union Clauses \union {"writing", "done", "dead"}
  /\ HostDbOnly
  /\ sent \in 0 .. 2
  /\ server \in Idle \union Command \union Clauses => sent = 0
  /\ server = "writing" => alarm # "set"
  /\ server = "done" => sent = 2 \/ client = "gone"
  /\ server = "dead" /\ ~killed => sent = 0
  /\ client = "idle" => server = "none"
  /\ client = "invalid" => server \in {"done", "dead"}
  /\ WholeOrNothing

\* A request that passes validation names no database but the host's, so the
\* last --db option is the host's.
LEMMA ForcedIsHost ==
  ASSUME NEW dbs \in Seq({"host", "other"}), OnlyHostDb(dbs)
  PROVE  ForcedDb(dbs) = "host"
<1>. DEFINE all == <<"host">> \o dbs
<1>1. all \in Seq({"host", "other"}) /\ Len(all) = 1 + Len(dbs) /\ Len(dbs) \in Nat
  OBVIOUS
<1>2. all[Len(all)] = "host"
  <2>1. CASE Len(dbs) = 0
    BY <1>1, <2>1
  <2>2. CASE Len(dbs) # 0
    <3>1. all[Len(all)] = dbs[Len(dbs)] /\ Len(dbs) \in DOMAIN dbs
      BY <1>1, <2>2
    <3>. QED
      BY <3>1 DEF OnlyHostDb
  <2>. QED
    BY <2>1, <2>2
<1>. QED
  BY <1>2 DEF ForcedDb, Last

LEMMA QueryInitInv == Init => QueryInv
BY DEF Init, QueryInv, NoRequest, HostDbOnly, WholeOrNothing, Idle, Command, Clauses

LEMMA QueryNextInv == QueryInv /\ [Next]_vars => QueryInv'
<1>. SUFFICES ASSUME QueryInv, [Next]_vars PROVE QueryInv'
  OBVIOUS
<1>. USE DEF QueryInv, HostDbOnly, WholeOrNothing, Idle, Command, Clauses
<1>1. ASSUME NEW r \in Requests, Ask(r)
      PROVE  QueryInv'
  <2>1. [r EXCEPT !.dbs = <<>>].dbs \in Seq({"host", "other"})
    BY DEF Requests
  <2>. QED
    BY <1>1, <2>1 DEF Ask
<1>2. ASSUME NEW r \in Requests \union {NoRequest}, AskRaw(r)
      PROVE  QueryInv'
  <2>1. r = NoRequest \/ r.dbs \in Seq({"host", "other"})
    BY DbOptionsAssumption DEF Requests
  <2>. QED
    BY <1>2, <2>1 DEF AskRaw
<1>3. CASE Receive
  BY <1>3 DEF Receive
<1>4. CASE Leave
  BY <1>4 DEF Leave
<1>5. CASE Setup
  BY <1>5 DEF Setup
<1>6. CASE ReadRequest
  <2>0. NoRequest.dbs = <<>> /\ <<>> \in Seq({"host", "other"})
    BY DEF NoRequest
  <2>1. request.dbs \in Seq({"host", "other"})
    BY <2>0
  <2>2. OnlyHostDb(request.dbs) => ForcedDb(request.dbs) = "host"
    BY <2>1, ForcedIsHost
  <2>. QED
    BY <1>6, <2>2 DEF ReadRequest
<1>7. CASE Step
  BY <1>7 DEF Step
<1>8. CASE ProgressDeadline
  BY <1>8 DEF ProgressDeadline
<1>9. CASE LeaveFinally
  BY <1>9 DEF LeaveFinally
<1>10. CASE Advance
  <2>1. /\ server \in {"handling", "closing", "composing", "timeout", "error"}
        /\ server' = Next1[server]
    BY <1>10 DEF Advance, Next1
  <2>2. server' \in {"closing", "composing", "finally"}
    BY <2>1 DEF Next1
  <2>3. server' \in {"closing", "composing"} => server \in {"handling", "closing"}
    BY <2>1 DEF Next1
  <2>. QED
    BY <1>10, <2>1, <2>2, <2>3 DEF Advance
<1>11. CASE Write
  BY <1>11 DEF Write
<1>12. ASSUME NEW c, CommandFails(c)
       PROVE  QueryInv'
  BY <1>12 DEF CommandFails
<1>13. CASE StatementSticks \/ ProbeSticks \/ TimePasses
  BY <1>13 DEF StatementSticks, ProbeSticks, TimePasses
<1>14. CASE Alarm
  BY <1>14 DEF Alarm
<1>15. CASE Kill
  BY <1>15 DEF Kill
<1>16. CASE UNCHANGED vars
  BY <1>16 DEF vars
<1>. QED
  BY <1>1, <1>2, <1>3, <1>4, <1>5, <1>6, <1>7, <1>8, <1>9, <1>10, <1>11, <1>12,
     <1>13, <1>14, <1>15, <1>16 DEF Next, Code, Ended

\* The inductive invariant holds in every reachable state.
THEOREM QueryInvariance == Spec => []QueryInv
BY QueryInitInv, QueryNextInv, PTL DEF Spec

\* The server runs nothing but allowed commands on the host database, for
\* every request it can be sent.
THEOREM RunsOnHostDb == Spec => []HostDbOnly
<1>1. QueryInv => HostDbOnly
  BY DEF QueryInv
<1>. QED
  BY <1>1, QueryInvariance, PTL

\* A client whose server was not killed has a whole response or none.
THEOREM WholeResponses == Spec => []WholeOrNothing
<1>1. QueryInv => WholeOrNothing
  BY DEF QueryInv
<1>. QED
  BY <1>1, QueryInvariance, PTL
================================================================================
