------------------------------ MODULE QueryServer ------------------------------
(***************************************************************************)
(* The query socket: a client without privileges sends its argument vector *)
(* over a Unix socket, and systemd starts one `watchdirs query-server` for *)
(* the connection (Accept=yes), which runs the command on the host         *)
(* database and writes one JSON response.                                  *)
(*                                                                         *)
(* The server sets two deadlines at once: SIGALRM, whose handler raises    *)
(* TimeoutError wherever the interpreter is, and an SQLite progress        *)
(* deadline that interrupts a statement.  TimeoutError is an OSError, so   *)
(* what the alarm does depends on the clause it finds the interpreter in.  *)
(***************************************************************************)
EXTENDS Naturals, Sequences, SequencesExt

CONSTANTS
  Commands,    \* the commands that are asked for
  DbOptions,   \* the --db options a request may carry: sequences of databases
  MaxHung      \* bound: probes (statvfs, lsof) that never return by themselves

ASSUME DbOptionsAssumption == DbOptions \subseteq Seq({"host", "other"})

VARIABLES
  client,      \* where the client is
  request,     \* the line the server reads: NoRequest, or command, --db options and
               \* whether the parser knows the other options
  server,      \* where the server process is
  runs,        \* the command and the database main() runs
  at,          \* the step of the command's body
  alarm,       \* SIGALRM: "off", "set" or "spent"
  late,        \* timeout_seconds have passed since the server set its deadlines
  stuck,       \* the current step does not return by itself
  hung,        \* probes that have got stuck
  aborted,     \* the deadline ended the command
  code,        \* what the response says: "ok" or an error code
  sent,        \* halves of the response written to the socket
  killed       \* the server process was killed from outside

vars == <<client, request, server, runs, at, alarm, late, stuck, hung, aborted,
          code, sent, killed>>

NoRequest == [command |-> "none", dbs |-> <<>>, parses |-> FALSE]
Requests  == [command : Commands, dbs : DbOptions, parses : BOOLEAN]
NoRun     == [command |-> "none", db |-> "none"]

AllowedCommands ==
  {"top", "stats", "timeline", "snapshots", "diff", "investigate", "report",
   "deleted", "deleted-open-files", "explain-path", "df-vs-index"}

\* The steps of a command's handler.  All are inside its try statement; a
\* probe has a try of its own that turns an OSError into a warning.
Body(c) ==
  IF c \in {"investigate", "df-vs-index", "deleted-open-files"}
  THEN <<"sql", "probe", "probe", "python">>
  ELSE <<"sql", "python">>

\* argparse keeps the last --db, and the server puts one before all others.
ForcedDb(dbs) == Last(<<"host">> \o dbs)

\* Mutant: the database path of a request is not compared with the host's.
AnyDb(dbs) == TRUE

\* _without_host_db_option drops every --db and refuses one that is not the host's.
OnlyHostDb(dbs) == \A i \in DOMAIN dbs : dbs[i] = "host"

Init ==
  /\ client = "idle" /\ request = NoRequest
  /\ server = "none" /\ runs = NoRun /\ at = 0
  /\ alarm = "off" /\ late = FALSE /\ stuck = FALSE /\ hung = 0
  /\ aborted = FALSE /\ code = "none" /\ sent = 0 /\ killed = FALSE

--------------------------------------------------------------------------------
(* The client *)

Proxied(r) ==
  r.parses /\ r.command \in AllowedCommands /\ ForcedDb(r.dbs) = "host"

\* The watchdirs command line: what it does not proxy it runs itself; unknown
\* options, and another --db that the host's overrides, end in an error.
Ask(r) ==
  /\ client = "idle"
  /\ \/ /\ Proxied(r) /\ OnlyHostDb(r.dbs)
        /\ client' = "waiting" /\ server' = "start"
        /\ request' = [r EXCEPT !.dbs = <<>>]
     \/ /\ Proxied(r) /\ OnlyHostDb(r.dbs)
        /\ client' = "unavailable"           \* connect fails
        /\ UNCHANGED <<server, request>>
     \/ /\ ~Proxied(r) \/ ~OnlyHostDb(r.dbs)
        /\ client' = IF Proxied(r) \/ ~r.parses THEN "refused" ELSE "local"
        /\ UNCHANGED <<server, request>>
  /\ UNCHANGED <<runs, at, alarm, late, stuck, hung, aborted, code, sent, killed>>

\* Another program of the socket's group: it may write any line, or none.
AskRaw(r) ==
  /\ client = "idle"
  /\ client' = "waiting" /\ server' = "start" /\ request' = r
  /\ UNCHANGED <<runs, at, alarm, late, stuck, hung, aborted, code, sent, killed>>

\* The client reads until the server's end of the socket is closed.
Receive ==
  /\ client = "waiting"
  /\ server \in {"done", "dead"}
  /\ client' = IF sent = 2 THEN "answered" ELSE "invalid"
  /\ UNCHANGED <<request, server, runs, at, alarm, late, stuck, hung, aborted,
                 code, sent, killed>>

Leave ==
  /\ client = "waiting"
  /\ client' = "gone"
  /\ UNCHANGED <<request, server, runs, at, alarm, late, stuck, hung, aborted,
                 code, sent, killed>>

--------------------------------------------------------------------------------
(* The server *)

\* The clauses that a server with an alarm set can be in.
Armed == {"reading", "running", "handling", "closing", "composing", "timeout",
          "error", "finally"}

Setup ==
  /\ server = "start"
  /\ server' = "reading" /\ alarm' = "set"
  /\ UNCHANGED <<client, request, runs, at, late, stuck, hung, aborted, code,
                 sent, killed>>

\* A request that is refused is an exception the server answers.  One with
\* options main() cannot parse raises SystemExit, which no clause catches.
ReadRequest ==
  /\ server = "reading"
  /\ LET accepted == request.command \in AllowedCommands /\ OnlyHostDb(request.dbs)
     IN  \/ /\ accepted /\ request.parses
            /\ server' = "running" /\ at' = 1
            /\ runs' = [command |-> request.command, db |-> ForcedDb(request.dbs)]
            /\ UNCHANGED code
         \/ /\ accepted /\ ~request.parses
            /\ server' = "dead"
            /\ UNCHANGED <<runs, at, code>>
         \/ /\ ~accepted
            /\ server' = "error" /\ code' = "query_error"
            /\ UNCHANGED <<runs, at>>
  /\ UNCHANGED <<client, request, alarm, late, stuck, hung, aborted, sent, killed>>

Kind == Body(runs.command)[at]

\* One step of the command ends, and after the last one its finally clause runs.
Step ==
  /\ server = "running" /\ ~stuck
  /\ IF at < Len(Body(runs.command))
     THEN at' = at + 1 /\ UNCHANGED <<server, code>>
     ELSE server' = "closing" /\ code' = "ok" /\ UNCHANGED at
  /\ UNCHANGED <<client, request, runs, alarm, late, stuck, hung, aborted, sent,
                 killed>>

\* A ReportError or a database error.  deleted-open-files has no clause for
\* the first, which goes to the server's own.
CommandFails(c) ==
  /\ server = "running" /\ Kind # "probe" /\ ~stuck
  /\ c \in {"report_error", "database_error"}
  /\ IF c = "report_error" /\ runs.command = "deleted-open-files"
     THEN server' = "error" /\ code' = "query_error"
     ELSE server' = "handling" /\ code' = c
  /\ UNCHANGED <<client, request, runs, at, alarm, late, stuck, hung, aborted,
                 sent, killed>>

\* A statement over a large database may take longer than any deadline.
StatementSticks ==
  /\ server = "running" /\ Kind = "sql" /\ ~stuck
  /\ stuck' = TRUE
  /\ UNCHANGED <<client, request, server, runs, at, alarm, late, hung, aborted,
                 code, sent, killed>>

ProbeSticks ==
  /\ server = "running" /\ Kind = "probe" /\ ~stuck
  /\ hung < MaxHung
  /\ stuck' = TRUE /\ hung' = hung + 1
  /\ UNCHANGED <<client, request, server, runs, at, alarm, late, aborted, code,
                 sent, killed>>

\* _database_runtime_error, which two commands use, tells an interrupted
\* statement from other errors.
Interrupted(c) == IF c \in {"timeline", "investigate"} THEN "query_timeout"
                  ELSE "database_error"

\* Mutant: the read-only connection gets no progress handler.
NoProgressDeadline == FALSE /\ UNCHANGED vars

\* The progress handler of the read-only connection interrupts a statement.
\* SIGALRM may have been delivered in that callback, with the same outcome.
ProgressDeadline ==
  /\ server = "running" /\ Kind = "sql" /\ late
  /\ server' = "handling" /\ aborted' = TRUE /\ code' = Interrupted(runs.command)
  /\ stuck' = FALSE
  /\ alarm' \in {alarm, "spent"}
  /\ UNCHANGED <<client, request, runs, at, late, hung, sent, killed>>

\* Mutant: the alarm is left set while the response is written.
LeaveFinallyArmed ==
  /\ server = "finally"
  /\ server' = "writing"
  /\ UNCHANGED <<client, request, runs, at, alarm, late, stuck, hung, aborted,
                 code, sent, killed>>

LeaveFinally ==
  /\ server = "finally"
  /\ server' = "writing" /\ alarm' = "off"
  /\ UNCHANGED <<client, request, runs, at, late, stuck, hung, aborted, code,
                 sent, killed>>

\* The rest of a handler, and the server's own clauses after it.
Next1 == [handling  |-> "closing",  closing |-> "composing",
          composing |-> "finally",  timeout |-> "finally", error |-> "finally"]

Advance ==
  /\ server \in DOMAIN Next1
  /\ server' = Next1[server]
  /\ code' = IF server = "timeout" THEN "query_timeout" ELSE code
  /\ UNCHANGED <<client, request, runs, at, alarm, late, stuck, hung, aborted,
                 sent, killed>>

\* A client that has gone makes the write fail, which the server ignores.
Write ==
  /\ server = "writing"
  /\ IF client = "gone" \/ sent = 2
     THEN server' = "done" /\ UNCHANGED sent
     ELSE sent' = sent + 1 /\ UNCHANGED server
  /\ UNCHANGED <<client, request, runs, at, alarm, late, stuck, hung, aborted,
                 code, killed>>

TimePasses ==
  /\ alarm = "set" /\ ~late
  /\ late' = TRUE
  /\ UNCHANGED <<client, request, server, runs, at, alarm, stuck, hung, aborted,
                 code, sent, killed>>

\* SIGALRM: the handler raises TimeoutError where the interpreter is.
\*   - in a probe the probe's own clause catches it, and the command goes on;
\*   - in a statement it waits for the progress callback (ProgressDeadline);
\*   - elsewhere in the command's try, its clause for OSError catches it;
\*   - elsewhere in the server's try, the clause for TimeoutError does;
\*   - in an except or finally clause of the server nothing does.
Alarm ==
  /\ alarm = "set" /\ late
  /\ alarm' = "spent"
  /\ \/ /\ server = "running" /\ Kind = "probe"
        /\ at' = at + 1 /\ stuck' = FALSE
        /\ UNCHANGED <<server, aborted, code>>
     \/ /\ server = "running" /\ Kind # "probe" /\ ~stuck
        /\ server' = "handling" /\ aborted' = TRUE /\ code' = "database_error"
        /\ UNCHANGED <<at, stuck>>
     \/ /\ server \in {"reading", "handling", "closing", "composing"}
        /\ server' = "timeout" /\ aborted' = TRUE
        /\ UNCHANGED <<at, stuck, code>>
     \/ /\ server \in {"timeout", "error", "finally", "writing"}
        /\ server' = "dead"
        /\ UNCHANGED <<at, stuck, aborted, code>>
  /\ UNCHANGED <<client, request, runs, late, hung, sent, killed>>

\* The process is killed, for example when the service is stopped.
Kill ==
  /\ server \notin {"none", "done", "dead"}
  /\ server' = "dead" /\ killed' = TRUE
  /\ UNCHANGED <<client, request, runs, at, alarm, late, stuck, hung, aborted,
                 code, sent>>

\* One connection: once both ends are through, nothing more happens.
Ended ==
  /\ client \notin {"idle", "waiting"}
  /\ server \in {"none", "done", "dead"}
  /\ UNCHANGED vars

Code == Setup \/ ReadRequest \/ Step \/ ProgressDeadline \/ LeaveFinally
          \/ Advance \/ Write

Next ==
  \/ \E r \in Requests : Ask(r) \/ AskRaw(r)
  \/ AskRaw(NoRequest)
  \/ Receive \/ Leave
  \/ Code
  \/ \E c \in {"report_error", "database_error"} : CommandFails(c)
  \/ StatementSticks \/ ProbeSticks \/ TimePasses \/ Alarm \/ Kill \/ Ended

Spec == Init /\ [][Next]_vars

\* The interpreter runs, the kernel delivers the signal and the end of the
\* stream; nothing obliges a stuck probe to return.
FairSpec == Spec /\ WF_vars(Code) /\ WF_vars(TimePasses) /\ WF_vars(Alarm)
                 /\ WF_vars(Receive)

--------------------------------------------------------------------------------
(* Properties *)

\* What the server runs, for whatever line it was sent, is an allowed command
\* on the host database: the --db it puts first is not overridden by a later
\* one, because every other --db has been refused.
HostDbOnly ==
  server \in {"running", "handling", "closing", "composing"} =>
    runs.command \in AllowedCommands /\ runs.db = "host"

\* Unless the server is killed, its client gets a whole response or nothing:
\* no deadline can fall into the writing of the response.
WholeOrNothing == (client = "invalid" /\ ~killed) => sent = 0

\* A client that waits for its response does not wait for ever, however long
\* its statements take: the query socket is bounded by the progress deadline.
\* It needs every probe to return: a probe swallows the alarm, and nothing
\* bounds the next one.
ClientEnds == [](hung = 0) => (client = "waiting" ~> client # "waiting")

\* A command that the deadline ended is reported as query_timeout
\* (test_query_server_timeout_returns_machine_readable_stdout).
TimeoutNamed == (server = "writing" /\ aborted) => code = "query_timeout"
================================================================================
