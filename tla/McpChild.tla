------------------------------- MODULE McpChild -------------------------------
(***************************************************************************)
(* mcpchild.Start: an MCP adapter is started as a child process with its   *)
(* signing key and bearer token in files of a private directory, publishes *)
(* its address in a ready file there, and is owned by the caller from then *)
(* on.  Start, the goroutine that waits for the child, the child and the   *)
(* caller's cancellation race.  The child's end is sent once on a channel  *)
(* that Start may read and, if it did not, its owner reads.                *)
(***************************************************************************)
CONSTANT Bearer   \* does the request carry a case API bearer token

VARIABLES
  main,    \* Start, and the caller after it
  child,   \* the process: none, running or dead, and did it fail
  waiter,  \* the goroutine: none, waiting, cleaning or sent
  files,   \* what the private directory holds, "dir" being itself
  done,    \* the channel: empty, clean, failed or taken
  timeout, \* has the startup timeout passed
  ctx      \* is the caller's context cancelled

Secrets == {"key"} \cup (IF Bearer THEN {"bearer"} ELSE {})

Init ==
  /\ main = "prepare"
  /\ child = "none" /\ waiter = "none"
  /\ files = {} /\ done = "empty"
  /\ timeout = FALSE

-----------------------------------------------------------------------------
(* Start.                                                                  *)

Goto(at) == main' = at

\* The private directory and its secrets; an error removes them all.
Prepare ==
  /\ main = "prepare"
  /\ \/ Goto("spawn") /\ files' = {"dir"} \cup Secrets
     \/ Goto("failed") /\ files' = {}
  /\ UNCHANGED <<child, waiter, done, timeout, ctx>>

\* cmd.Start and the observer: a child that could not be recorded is killed and
\* waited for on the spot.
Spawn ==
  /\ main = "spawn"
  /\ \/ /\ Goto("poll") /\ child' = "running" /\ waiter' = "waiting"
        /\ UNCHANGED files
     \/ /\ Goto("failed") /\ files' = {}
        /\ child' \in {"none", "dead"}
        /\ UNCHANGED waiter
  /\ UNCHANGED <<done, timeout, ctx>>

\* readReady: an address, no file yet, or a file that cannot be used.
Poll ==
  /\ main = "poll"
  /\ \/ "ready" \in files /\ Goto("remove")
     \/ "ready" \in files /\ Goto("kill")
     \/ "ready" \notin files /\ Goto("select")
  /\ UNCHANGED <<child, waiter, files, done, timeout, ctx>>

\* Mutant: the child's end seen while waiting is awaited once more.
GiveUpForgetting ==
  /\ main = "select"
  /\ \/ /\ done \in {"clean", "failed"}
        /\ done' = "taken"
     \/ /\ ctx \/ timeout
        /\ UNCHANGED done
  /\ Goto("kill")
  /\ UNCHANGED <<child, waiter, files, timeout, ctx>>

\* waitReady gives up: the child's end is taken from the channel, and is not there
\* to be taken again, or the startup is over time or cancelled.
GiveUp ==
  /\ main = "select"
  /\ \/ /\ done \in {"clean", "failed"}
        /\ done' = "taken"
        /\ Goto("failed")
     \/ /\ ctx \/ timeout
        /\ Goto("kill")
        /\ UNCHANGED done
  /\ UNCHANGED <<child, waiter, files, timeout, ctx>>

PollAgain ==
  /\ main = "select"
  /\ Goto("poll")
  /\ UNCHANGED <<child, waiter, files, done, timeout, ctx>>

\* The child has read its secrets: their files are removed, or the child killed.
Remove ==
  /\ main = "remove"
  /\ \/ Goto("owned") /\ files' = files \ {"key", "bearer"}
     \/ Goto("kill") /\ files' \in {files, files \ {"key"}}
  /\ UNCHANGED <<child, waiter, done, timeout, ctx>>

\* Mutant: the killed child is not waited for.
KillUnwaited ==
  /\ main = "kill"
  /\ child' = "dead"
  /\ Goto("failed")
  /\ UNCHANGED <<waiter, files, done, timeout, ctx>>

\* errors.Join(err, cmd.Process.Kill(), <-done): a child already dead cannot be
\* killed, and is awaited all the same.
Kill ==
  /\ main = "kill"
  /\ child' = "dead"
  /\ Goto("await")
  /\ UNCHANGED <<waiter, files, done, timeout, ctx>>

Await ==
  /\ main = "await" /\ done \in {"clean", "failed"}
  /\ done' = "taken"
  /\ Goto("failed")
  /\ UNCHANGED <<child, waiter, files, timeout, ctx>>

\* The owner takes the child's end, now or after a cancellation.
OwnerTakes ==
  /\ main = "owned" /\ done \in {"clean", "failed"}
  /\ done' = "taken"
  /\ Goto("ended")
  /\ UNCHANGED <<child, waiter, files, timeout, ctx>>

-----------------------------------------------------------------------------
(* The child, the goroutine that waits for it, and the context.            *)

\* publishReady writes a temporary file and renames it.
Publish ==
  /\ child = "running" /\ "dir" \in files /\ "ready" \notin files
  /\ files' = files \cup {"ready"}
  /\ UNCHANGED <<main, child, waiter, done, timeout, ctx>>

\* The child exits by itself, withdrawing its ready file if it can, or is killed
\* by the cancelled context.
ChildExits ==
  /\ child = "running"
  /\ child' = "dead"
  /\ files' \in {files, files \ {"ready"}}
  /\ UNCHANGED <<main, waiter, done, timeout, ctx>>

\* cmd.Wait has returned; the private directory goes with everything in it.
Reap ==
  /\ waiter = "waiting" /\ child = "dead"
  /\ waiter' = "cleaning"
  /\ files' = {}
  /\ UNCHANGED <<main, child, done, timeout, ctx>>

\* A child that ends under a cancelled context has not failed.
Send ==
  /\ waiter = "cleaning"
  /\ waiter' = "sent"
  /\ done' \in IF ctx THEN {"clean"} ELSE {"clean", "failed"}
  /\ UNCHANGED <<main, child, files, timeout, ctx>>

StartupTimeout ==
  /\ ~timeout /\ timeout' = TRUE
  /\ UNCHANGED <<main, child, waiter, files, done, ctx>>

\* Start and the child; the context's end and the owner's wait are the caller's.
Start == Prepare \/ Spawn \/ Poll \/ GiveUp \/ PollAgain \/ Remove \/ Kill \/ Await
Child == Publish \/ ChildExits \/ Reap \/ Send
Next  == Start \/ Child \/ StartupTimeout
=============================================================================
