--------------------------- MODULE InstanceRegistry ---------------------------
(***************************************************************************)
(* Several IDA processes of one user, each with the plugin: the search for *)
(* a port in McpHttpServer::start and the files in ~/.ida-mcp/instances    *)
(* that advertise the servers (plugin.cpp).  Processes crash at any point; *)
(* the directory is shared and nothing locks it.                           *)
(*                                                                         *)
(* Every operation on the files may fail, and the code goes on as if it    *)
(* had not.  In a process without HOME they all fail: get_instances_dir()  *)
(* returns no path then.                                                   *)
(*                                                                         *)
(* A Process lives once.  What its threads do is in ServerLifecycle.       *)
(***************************************************************************)
EXTENDS Naturals, FiniteSets

CONSTANTS
    Process,     \* processes, IDA with the plugin or, if idle, any other
    Pid,         \* process ids
    Nothing,        \* no pid, port or entry
    MaxRetries,  \* max_retries of start(): ports 0 .. MaxRetries are tried
    Taken        \* ports that other programs hold without sharing

Port == 0 .. MaxRetries
Entry == [by : Process, port : Port \cup {Nothing}]

ASSUME RegistryAssumption ==
    /\ MaxRetries \in Nat
    /\ Nothing \notin Process \cup Pid \cup Port \cup Entry
    /\ Taken \subseteq Port

VARIABLES
    phase,    \* phase[p]: where the main thread of p is
    pid,      \* pid[p]: the pid p has or had
    port,     \* port[p]: the port p listens on
    attempt,  \* attempt[p]: the port to try next
    todo,     \* todo[p]: directory entries p has still to look at
    doomed,   \* doomed[p]: the entry p has found dead and is about to remove
    entry,    \* entry[q]: contents of <q>.json, or Nothing; by is the writer
    stale,    \* history: stale[p]: entries that were stale when p began its walk
    written,  \* history: written[p]: p serves and its file has been written
    kept      \* history: pids whose file could not be removed

registryVars == <<phase, pid, port, attempt, todo, doomed, entry, stale, written, kept>>

Phase == {"unborn", "idle", "cleanup", "remove", "bind", "open", "write",
          "serving", "unpublish", "dead"}
RegistryTypeOK ==
    /\ phase \in [Process -> Phase]
    /\ pid \in [Process -> Pid \cup {Nothing}]
    /\ port \in [Process -> Port \cup {Nothing}]
    /\ attempt \in [Process -> Port]
    /\ todo \in [Process -> SUBSET Pid]
    /\ doomed \in [Process -> Pid \cup {Nothing}]
    /\ entry \in [Pid -> Entry \cup {Nothing}]
    /\ stale \in [Process -> SUBSET (Pid \X Process)]
    /\ written \in [Process -> BOOLEAN]
    /\ kept \subseteq Pid

RegistryInit ==
    /\ phase = [p \in Process |-> "unborn"]
    /\ pid = [p \in Process |-> Nothing]
    /\ port = [p \in Process |-> Nothing]
    /\ attempt = [p \in Process |-> 0]
    /\ todo = [p \in Process |-> {}]
    /\ doomed = [p \in Process |-> Nothing]
    /\ entry = [q \in Pid |-> Nothing]
    /\ stale = [p \in Process |-> {}]
    /\ written = [p \in Process |-> FALSE]
    /\ kept = {}

Living == {p \in Process : phase[p] \notin {"unborn", "dead"}}

\* Mutant: only a process that serves counts as alive.
is_pid_alive_Serving(q) == \E p \in Living : pid[p] = q /\ phase[p] = "serving"

is_pid_alive(q) == \E p \in Living : pid[p] = q

\* Files whose writer has died.
StaleEntries == {e \in Pid \X Process : /\ entry[e[1]] # Nothing
                                        /\ entry[e[1]].by = e[2]
                                        /\ e[2] \notin Living}

\* bind() with SO_REUSEPORT (SO_REUSEADDR on Windows), which httplib sets on
\* every listening socket, fails only for a port held without it.
Bindable(n) == n \notin Taken

\* fs::remove(): the file goes, or stays and the error code is not looked at.
Remove(q) ==
    \/ /\ entry' = [entry EXCEPT ![q] = Nothing]
       /\ kept' = kept \ {q}
    \/ /\ entry[q] # Nothing
       /\ kept' = kept \cup {q}
       /\ UNCHANGED entry

\* The pid of a dead process may be given out again.
Boot(p, q) ==
    /\ phase[p] = "unborn"
    /\ \A r \in Living : pid[r] # q
    /\ phase' = [phase EXCEPT ![p] = "idle"]
    /\ pid' = [pid EXCEPT ![p] = q]
    /\ UNCHANGED <<port, attempt, todo, doomed, entry, stale, written, kept>>

\* run() with no server running: cleanup_stale_instances opens the directory,
\* or there is none to open and nothing is cleaned up.
RunBegin(p) ==
    /\ phase[p] = "idle"
    /\ phase' = [phase EXCEPT ![p] = "cleanup"]
    /\ \/ /\ todo' = [todo EXCEPT ![p] = {q \in Pid : entry[q] # Nothing}]
          /\ stale' = [stale EXCEPT ![p] = StaleEntries]
       \/ UNCHANGED <<todo, stale>>
    /\ UNCHANGED <<pid, port, attempt, doomed, entry, written, kept>>

\* Mutant: the walk ends at the first entry that is in use.
CleanupCheck_StopsAtLiving(p, q) ==
    /\ phase[p] = "cleanup"
    /\ q \in todo[p]
    /\ IF entry[q] = Nothing \/ is_pid_alive(q)
       THEN /\ todo' = [todo EXCEPT ![p] = {}]
            /\ UNCHANGED <<phase, doomed>>
       ELSE /\ todo' = [todo EXCEPT ![p] = @ \ {q}]
            /\ phase' = [phase EXCEPT ![p] = "remove"]
            /\ doomed' = [doomed EXCEPT ![p] = q]
    /\ UNCHANGED <<pid, port, attempt, entry, stale, written, kept>>

\* Looks at one entry: one that has vanished or whose pid is alive is skipped.
CleanupCheck(p, q) ==
    /\ phase[p] = "cleanup"
    /\ q \in todo[p]
    /\ todo' = [todo EXCEPT ![p] = @ \ {q}]
    /\ IF entry[q] = Nothing \/ is_pid_alive(q)
       THEN UNCHANGED <<phase, doomed>>
       ELSE /\ phase' = [phase EXCEPT ![p] = "remove"]
            /\ doomed' = [doomed EXCEPT ![p] = q]
    /\ UNCHANGED <<pid, port, attempt, entry, stale, written, kept>>

CleanupRemove(p) ==
    /\ phase[p] = "remove"
    /\ Remove(doomed[p])
    /\ phase' = [phase EXCEPT ![p] = "cleanup"]
    /\ doomed' = [doomed EXCEPT ![p] = Nothing]
    /\ UNCHANGED <<pid, port, attempt, todo, stale, written>>

CleanupEnd(p) ==
    /\ phase[p] = "cleanup"
    /\ todo[p] = {}
    /\ phase' = [phase EXCEPT ![p] = "bind"]
    /\ attempt' = [attempt EXCEPT ![p] = 0]
    /\ UNCHANGED <<pid, port, todo, doomed, entry, stale, written, kept>>

\* One round of the loop in start(); after the last port run() gives up.
TryPort(p) ==
    /\ phase[p] = "bind"
    /\ stale' = [stale EXCEPT ![p] = {}]
    /\ IF Bindable(attempt[p])
       THEN /\ port' = [port EXCEPT ![p] = attempt[p]]
            /\ phase' = [phase EXCEPT ![p] = "open"]
            /\ UNCHANGED attempt
       ELSE IF attempt[p] < MaxRetries
            THEN /\ attempt' = [attempt EXCEPT ![p] = @ + 1]
                 /\ UNCHANGED <<phase, port>>
            ELSE /\ phase' = [phase EXCEPT ![p] = "idle"]
                 /\ UNCHANGED <<attempt, port>>
    /\ UNCHANGED <<pid, todo, doomed, entry, written, kept>>

\* write_instance_file creates or truncates the file ...
OpenFile(p) ==
    /\ phase[p] = "open"
    /\ entry' = [entry EXCEPT ![pid[p]] = [by |-> p, port |-> Nothing]]
    /\ kept' = kept \ {pid[p]}
    /\ phase' = [phase EXCEPT ![p] = "write"]
    /\ UNCHANGED <<pid, port, attempt, todo, doomed, stale, written>>

\* ... unless there is no home directory, or the directory or the file cannot
\* be created: run() returns true, and the server serves without a file.
OpenFails(p) ==
    /\ phase[p] = "open"
    /\ phase' = [phase EXCEPT ![p] = "serving"]
    /\ UNCHANGED <<pid, port, attempt, todo, doomed, entry, stale, written, kept>>

\* ... and writes it: a file that has been unlinked meanwhile stays unlinked.
WriteFile(p) ==
    /\ phase[p] = "write"
    /\ entry' = IF entry[pid[p]] = Nothing THEN entry
                ELSE [entry EXCEPT ![pid[p]].port = port[p]]
    /\ written' = [written EXCEPT ![p] = TRUE]
    /\ phase' = [phase EXCEPT ![p] = "serving"]
    /\ UNCHANGED <<pid, port, attempt, todo, doomed, stale, kept>>

\* A write that fails, for want of space say, leaves the file empty; the state
\* of the stream is not looked at.
WriteFails(p) ==
    /\ phase[p] = "write"
    /\ phase' = [phase EXCEPT ![p] = "serving"]
    /\ UNCHANGED <<pid, port, attempt, todo, doomed, entry, stale, written, kept>>

\* stop() has returned: the port is free.
Stop(p) ==
    /\ phase[p] = "serving"
    /\ port' = [port EXCEPT ![p] = Nothing]
    /\ phase' = [phase EXCEPT ![p] = "unpublish"]
    /\ written' = [written EXCEPT ![p] = FALSE]
    /\ UNCHANGED <<pid, attempt, todo, doomed, entry, stale, kept>>

\* Mutant: run() does not remove the file.
Unpublish_KeepsFile(p) ==
    /\ phase[p] = "unpublish"
    /\ phase' = [phase EXCEPT ![p] = "idle"]
    /\ UNCHANGED <<pid, port, attempt, todo, doomed, entry, stale, written, kept>>

\* remove_instance_file() in run().
Unpublish(p) ==
    /\ phase[p] = "unpublish"
    /\ Remove(pid[p])
    /\ phase' = [phase EXCEPT ![p] = "idle"]
    /\ UNCHANGED <<pid, port, attempt, todo, doomed, stale, written>>

\* ~McpPlugmod without a server, and the process exits.
Quit(p) ==
    /\ phase[p] = "idle"
    /\ Remove(pid[p])
    /\ phase' = [phase EXCEPT ![p] = "dead"]
    /\ UNCHANGED <<pid, port, attempt, todo, doomed, stale, written>>

\* The process dies without its destructors; the system closes its socket.
Crash(p) ==
    /\ p \in Living
    /\ phase' = [phase EXCEPT ![p] = "dead"]
    /\ port' = [port EXCEPT ![p] = Nothing]
    /\ todo' = [todo EXCEPT ![p] = {}]
    /\ doomed' = [doomed EXCEPT ![p] = Nothing]
    /\ stale' = [stale EXCEPT ![p] = {}]
    /\ written' = [written EXCEPT ![p] = FALSE]
    /\ UNCHANGED <<pid, attempt, entry, kept>>

RegistryNext == \E p \in Process :
    \/ RunBegin(p) \/ CleanupRemove(p) \/ CleanupEnd(p) \/ TryPort(p)
    \/ OpenFile(p) \/ OpenFails(p) \/ WriteFile(p) \/ WriteFails(p)
    \/ Stop(p) \/ Unpublish(p) \/ Quit(p) \/ Crash(p)
    \/ \E q \in Pid : Boot(p, q) \/ CleanupCheck(p, q)

RegistrySpec == RegistryInit /\ [][RegistryNext]_registryVars

-----------------------------------------------------------------------------

\* More than one process has had this pid.  The code tells processes apart by
\* their pids and cannot know; what it achieves, it achieves for the others.
Reused(q) == \E p, r \in Process : p # r /\ pid[p] = q /\ pid[r] = q

(***************************************************************************)
(* README.md:35 "Each instance writes its port, PID, and IDB path": once a *)
(* process has written its file it stays advertised, at the port it        *)
(* listens on, for as long as it serves: whatever cleanups of other        *)
(* processes were under way when it started, the file is neither removed   *)
(* nor left unlinked.  A server whose own file could not be created or     *)
(* written serves unadvertised (ServerIsAdvertised).                       *)
(***************************************************************************)
ServingIsAdvertised ==
    \A p \in Process : phase[p] = "serving" /\ written[p] /\ ~Reused(pid[p]) =>
        entry[pid[p]] = [by |-> p, port |-> port[p]]

(***************************************************************************)
(* README.md:35 "Stale files from crashed sessions are cleaned up          *)
(* automatically": what was stale when a cleanup opened the directory is   *)
(* gone when it ends, also if other cleanups and crashes ran in between;   *)
(* only a file that could not be removed, or one of a pid that was given   *)
(* out again, may be left.                                                 *)
(***************************************************************************)
CleanupIsThorough ==
    \A p \in Process : phase[p] = "bind" =>
        \A e \in stale[p] \cap StaleEntries : Reused(e[1]) \/ e[1] \in kept

(***************************************************************************)
(* A process that lives and does not serve advertises nothing, unless its  *)
(* file could not be removed, so a file of a living process is a server    *)
(* one can connect to (or one that is being started or stopped).           *)
(***************************************************************************)
IdleIsUnadvertised ==
    \A p \in Living :
        /\ phase[p] \in {"idle", "cleanup", "remove", "bind", "open"}
        /\ ~Reused(pid[p]) /\ pid[p] \notin kept
        => entry[pid[p]] = Nothing

(***************************************************************************)
(* README.md:35 "Each instance writes its port, PID, and IDB path" without *)
(* the exception: a server is advertised even if its write fails.          *)
(***************************************************************************)
ServerIsAdvertised ==
    \A p \in Process : phase[p] = "serving" /\ ~Reused(pid[p]) =>
        entry[pid[p]] = [by |-> p, port |-> port[p]]

(***************************************************************************)
(* README.md:35 "the port auto-increments if already in use": no two       *)
(* instances listen on the same port.                                      *)
(***************************************************************************)
PortsDistinct ==
    \A p, r \in Process : p # r /\ port[p] # Nothing => port[p] # port[r]
=============================================================================
