---------------------------- MODULE CommandLine ----------------------------
(***************************************************************************)
(* One process of the command line client, from its arguments to its exit  *)
(* code (main.rs; cli.rs: run, connect, watch, run_shell, run_batch): how  *)
(* it reaches a session, which commands it runs on it, what it does when   *)
(* one fails or the user presses Ctrl-C, and what it has cleaned up when   *)
(* it is gone.  The commands themselves are CliCommands.                   *)
(*                                                                         *)
(* A signal without a handler kills the process.  tokio installs the       *)
(* handler with the first ctrl_c() that is polled and never removes it;    *)
(* from then on a signal only reaches the futures listening at that        *)
(* moment, and is lost if there is none.                                   *)
(***************************************************************************)
EXTENDS CliCommands

CONSTANTS
    Commands,       \* top-level commands the process may be started with
    Lines,          \* what a shell or a batch may read
    WatchPaths,     \* the --path arguments of watch
    HostInit,       \* the local directory: name -> "none", "file" or "dir"
    MaxLines, MaxSignals,   \* bounds
    Volatile,       \* paths that may vanish from the phone meanwhile
    BatchOnTerminal \* whether a batch may be typed at a terminal

VARIABLES
    top,            \* the command the process was started with
    pc,             \* where the process is
    handler,        \* the SIGINT handler is installed
    caught,         \* a listening future has seen Ctrl-C
    signals,        \* number of Ctrl-C so far
    forward,        \* the adb forward of the connection exists
    monitors,       \* directories the phone watches for this session
    unanswered,     \* directories whose last monitor request failed
    lines,          \* number of lines read
    failed, fatal,  \* run_batch's counter; what made shell or batch stop
    errs,           \* kinds of lines that went wrong
    exit            \* "none", "ok", an error class, "killed" or "panicked"

procVars == <<top, pc, handler, caught, signals, forward, monitors, unanswered, lines,
              failed, fatal, errs, exit>>
vars == <<cliVars, procVars>>

Pcs == {"start", "select", "forward", "session", "snapshot", "op", "prompt", "cd",
        "close", "register", "unregister", "events", "exited"}

SelfHandling == {"shell", "watch", "sync_run", "sync_watch"}
Detached == TrustNames \cup {"list", "discover"}
Fatal == {"transport", "handshake", "protocol"}

NoOp == [name |-> "none"]

TypeOK ==
    /\ mode \in {"one", "shell", "batch", "watch"}
    /\ human \in BOOLEAN /\ tty \in BOOLEAN
    /\ step \in Steps /\ res \in {"none", "ok"} \cup Errors
    /\ at \in Nat /\ existing \in Nat /\ consent \in BOOLEAN
    /\ link \in {"none", "up", "lost"}
    /\ \A p \in DOMAIN rfs : rfs[p] \in {"none", "file", "dir", "newfile", "newdir"}
    /\ \A n \in DOMAIN loc : loc[n] \in {"none", "file", "dir", "newfile", "newdir"}
    /\ trust \subseteq {"host", "phone"}
    /\ job \in {"none", "running", "done", "failed"} /\ watching \in BOOLEAN
    /\ pc \in Pcs /\ exit \in {"none", "ok", "killed", "panicked"} \cup Errors
    /\ handler \in BOOLEAN /\ caught \in BOOLEAN /\ forward \in BOOLEAN
    /\ signals \in 0 .. MaxSignals /\ lines \in 0 .. MaxLines /\ failed \in 0 .. MaxLines
    /\ monitors \subseteq {WatchPaths[i] : i \in 1 .. Len(WatchPaths)}
    /\ fatal \in {"none", "local", "interrupted"} \cup Fatal

ModeOf(name) == IF name \in {"shell", "batch", "watch"} THEN name ELSE "one"

Init ==
    /\ top \in Commands
    /\ mode = ModeOf(top.name)
    /\ human \in BOOLEAN /\ tty \in BOOLEAN
    /\ mode = "batch" /\ ~BatchOnTerminal => ~tty
    /\ op = NoOp /\ step = "none" /\ res = "none" /\ at = 1
    /\ consent = FALSE /\ existing = 0 /\ reply = <<>>
    /\ cwd = Root /\ link = "none" /\ rfs = PhoneInit /\ loc = HostInit
    /\ clip = ClipInit /\ trust \in {{"host", "phone"}, {"phone"}}
    /\ job = "none" /\ watching = FALSE /\ thumbs = {}
    /\ pc = "start"
    /\ handler = (top.name \notin SelfHandling)
    /\ caught = FALSE /\ signals = 0 /\ forward = FALSE
    /\ monitors = {} /\ unanswered = {} /\ lines = 0
    /\ failed = 0 /\ fatal = "none" /\ errs = {} /\ exit = "none"

(***************************************************************************)
(* Leaving.                                                                *)
(***************************************************************************)

\* cli_main returns an exit code instead of calling process::exit: what is on
\* the stack is dropped, the transport included, which removes the forward.
Exit(r) ==
    /\ pc' = "exited" /\ exit' = r
    /\ op' = NoOp /\ step' = "none"
    /\ forward' = FALSE /\ link' = "none" /\ watching' = FALSE
    /\ job' = IF job = "running" THEN "failed" ELSE job

still == <<mode, human, tty, cwd, files, trust, reply, existing, consent, at, res>>
proc == <<top, handler, caught, signals, monitors, unanswered, lines, failed, fatal, errs>>

(***************************************************************************)
(* run: dispatch, connection and the one-shot path.                        *)
(***************************************************************************)

Begin(o) ==
    /\ op' = o /\ step' = "start" /\ res' = "none" /\ at' = 1
    /\ consent' = FALSE /\ existing' = 0 /\ reply' = <<>>

\* run: commands without a session start at once, a shell needs human output,
\* sync commands need --output-dir before anything is connected.
Dispatch ==
    /\ pc = "start"
    /\ \/ top.name \in Detached /\ pc' = "op" /\ Begin(top)
            /\ UNCHANGED <<exit, forward, link, jobs>>
       \/ /\ \/ top.name = "shell" /\ ~human
             \/ top.name \in SyncNames \ {"sync_status"} /\ ~top.output_dir
          /\ Exit("usage")
          /\ UNCHANGED <<res, at, consent, existing, reply>>
       \/ /\ top.name \notin Detached
          /\ ~(top.name = "shell" /\ ~human)
          /\ top.name \in SyncNames \ {"sync_status"} => top.output_dir
          /\ pc' = "select"
          /\ UNCHANGED <<exit, forward, link, jobs, cmdVars>>
    /\ UNCHANGED <<mode, human, tty, cwd, files, trust, proc>>

\* select_device_descriptor: the named phone, or the only one that is online.
select_device_descriptor ==
    /\ pc = "select"
    /\ \/ pc' = "forward" /\ UNCHANGED <<exit, op, step, forward, link, jobs>>
       \/ Exit("selection")
       \/ Exit("transport")
    /\ UNCHANGED <<still, proc>>

\* runtime.connect (Connect): the forward comes first, the session last.
ConnectForwards ==
    /\ pc = "forward"
    /\ \/ pc' = "session" /\ forward' = TRUE /\ UNCHANGED <<exit, op, step, link, jobs>>
       \/ Exit("transport")
    /\ UNCHANGED <<still, proc>>

ConnectSession ==
    /\ pc = "session"
    /\ \/ /\ link' = "up"
          /\ pc' = IF mode = "watch" THEN "register" ELSE "snapshot"
          /\ UNCHANGED <<exit, op, step, forward, jobs>>
       \/ \E r \in {"transport", "handshake", "protocol"} : Exit(r)
    /\ UNCHANGED <<still, proc>>

\* The first snapshot gives the remote directory to start in.  A one-shot
\* command runs next; shell and batch read lines.  Without a current directory
\* or a line editor the process ends here.
SessionReady ==
    /\ pc = "snapshot"
    /\ \/ mode = "one" /\ pc' = "op" /\ Begin(top) /\ UNCHANGED <<exit, forward, link, jobs>>
       \/ mode # "one" /\ pc' = "prompt" /\ UNCHANGED <<exit, forward, link, jobs, cmdVars>>
       \/ Exit("local") /\ UNCHANGED <<res, at, consent, existing, reply>>
    /\ UNCHANGED <<mode, human, tty, cwd, files, trust, proc>>

\* sync run and sync watch listen with a new future in every wait: a signal
\* that became ready together with the end of the wait is gone with it.
OwnWait == mode = "one" /\ top.name \in SelfHandling

\* A step of the running command.
Execute ==
    /\ pc = "op"
    /\ CommandStep
    /\ handler' = (handler \/ step' \in {"ask_i", "sleep", "events"})
    /\ caught' = (caught /\ ~OwnWait)
    /\ UNCHANGED <<top, pc, signals, forward, monitors, unanswered, lines,
                   failed, fatal, errs, exit>>

\* execute_connected takes device discover and the trust commands for handled;
\* neither the shell nor a batch handles them.  The panic unwinds the stack.
Unreachable ==
    /\ pc = "op" /\ step = "start" /\ mode # "one" /\ op.name \in Detached \ {"list"}
    /\ Exit("panicked")
    /\ UNCHANGED <<still, proc>>

UserAnswers ==
    /\ pc = "op" /\ Answer
    /\ caught' = (caught /\ ~OwnWait)
    /\ UNCHANGED <<top, pc, handler, signals, forward, monitors, unanswered, lines, failed,
                   fatal, errs, exit>>

Background ==
    /\ pc # "exited" /\ JobSteps /\ UNCHANGED procVars

\* A detached command's outcome is the process's.
DetachedDone ==
    /\ pc = "op" /\ step = "done" /\ top.name \in Detached
    /\ Exit(res) \/ (res = "ok" /\ Exit("local"))
    /\ UNCHANGED <<still, proc>>

\* A one-shot command always closes its session before it reports.
OneShotDone ==
    /\ pc = "op" /\ step = "done" /\ mode = "one" /\ top.name \notin Detached
    /\ pc' = "close"
    /\ UNCHANGED <<cliVars, proc, forward, exit>>

\* The exit code: a one-shot command's own outcome; for a batch what aborted
\* it, then whether any line failed; for a shell what made it stop.
Outcome ==
    CASE mode = "one" -> res
      [] mode # "one" /\ fatal # "none" -> fatal
      [] mode = "batch" /\ fatal = "none" /\ failed > 0 -> "local"
      [] OTHER -> "ok"

\* close_session: disconnect sends QUIT and forgets the session; it reports
\* trouble as a warning only.  Rendering the outcome may still fail.
close_session ==
    /\ pc = "close"
    /\ \/ Exit(Outcome)
       \/ mode = "one" /\ res = "ok" /\ Exit("local")
    /\ UNCHANGED <<still, proc>>

(***************************************************************************)
(* run_shell and run_batch.                                                *)
(***************************************************************************)

\* Commands whose prompt comes before their first await: the first poll of
\* the shell's select may reach it without having polled ctrl_c().
PromptFirst == {"clip_delete", "clip_clear"}

\* One line: the end, an interrupted or failed readline, a line that does not
\* parse, a builtin, or a command.
ReadLine ==
    /\ pc = "prompt"
    /\ \/ /\ pc' = "close"                                  \* EOF, exit, quit
          /\ UNCHANGED <<cmdVars, handler, lines, failed, fatal, errs, exit, forward, link, jobs>>
       \/ /\ mode = "shell" /\ Exit("local")                \* readline failed
          /\ UNCHANGED <<res, at, consent, existing, reply, handler, lines, failed, fatal, errs>>
       \/ /\ mode = "batch" /\ fatal' = "local" /\ pc' = "close"
          /\ UNCHANGED <<cmdVars, handler, lines, failed, errs, exit, forward, link, jobs>>
       \/ /\ lines < MaxLines /\ lines' = lines + 1
          /\ \E l \in Lines :
               \/ /\ l.name = "garbage" \/ (l.name \in {"shell", "batch"} /\ mode = "batch")
                       \/ (l.name = "shell" /\ mode = "shell")
                  /\ errs' = errs \cup {"line"}
                  /\ failed' = IF mode = "batch" THEN failed + 1 ELSE failed
                  /\ UNCHANGED <<cmdVars, handler, pc>>
               \/ /\ l.name = "cd" /\ pc' = "cd" /\ Begin(l)
                  /\ UNCHANGED <<handler, failed, errs>>
               \/ /\ l.name \notin {"garbage", "cd", "shell"}
                  /\ l.name = "batch" => mode = "shell"
                  /\ pc' = "op" /\ Begin(l)
                  /\ handler' \in (IF l.name \in PromptFirst THEN {handler, TRUE} ELSE {TRUE})
                  /\ UNCHANGED <<failed, errs>>
          /\ UNCHANGED <<fatal, exit, forward, link, jobs>>
    /\ UNCHANGED <<mode, human, tty, cwd, files, trust, top, caught, signals, monitors, unanswered>>

\* The builtin cd: a directory that is there becomes the current one; anything
\* else prints a message, in a batch too, and the loop goes on.
ChangeDirectory ==
    /\ pc = "cd"
    /\ \/ /\ Asked("ok", TRUE)
          /\ IF IsDir(At(Arg(1)))
             THEN cwd' = Arg(1) /\ UNCHANGED errs
             ELSE errs' = errs \cup {"cd"} /\ UNCHANGED cwd
       \/ /\ \E o \in {"refused", "failed"} : Asked(o, FALSE)
          /\ errs' = errs \cup {"cd"} /\ UNCHANGED cwd
    /\ pc' = "prompt" /\ op' = NoOp /\ step' = "none"
    /\ UNCHANGED <<mode, human, tty, res, at, consent, existing, reply, files, trust, jobs>>
    /\ UNCHANGED <<top, handler, caught, signals, forward, monitors, unanswered, lines, failed,
                   fatal, exit>>

\* The shell prints an error and goes on, unless the connection is suspect.
ShellDone ==
    /\ pc = "op" /\ step = "done" /\ mode = "shell"
    /\ \/ /\ res \in Fatal /\ fatal' = res /\ pc' = "close"
          /\ UNCHANGED <<cmdVars, exit, forward, link, jobs>>
       \/ /\ res \notin Fatal /\ pc' = "prompt"
          /\ op' = NoOp /\ step' = "none"
          /\ UNCHANGED <<fatal, exit, res, at, consent, existing, reply, forward, link, jobs>>
       \/ /\ res = "ok" /\ Exit("local")                    \* render failed
          /\ UNCHANGED <<fatal, res, at, consent, existing, reply>>
    /\ errs' = errs \cup (IF res = "ok" THEN {} ELSE {"line"})
    /\ caught' = FALSE
    /\ UNCHANGED <<mode, human, tty, cwd, files, trust, top, handler, signals, monitors,
                   unanswered, lines, failed>>

\* Mutant of BatchDone: a line that failed is only printed.
BatchDone_uncounted ==
    /\ pc = "op" /\ step = "done" /\ mode = "batch"
    /\ IF res \in Fatal THEN fatal' = res /\ pc' = "close"
       ELSE pc' = "prompt" /\ UNCHANGED fatal
    /\ errs' = errs \cup (IF res = "ok" THEN {} ELSE {"line"})
    /\ op' = NoOp /\ step' = "none"
    /\ UNCHANGED <<res, at, consent, existing, reply, mode, human, tty, dataVars>>
    /\ UNCHANGED <<top, handler, caught, signals, forward, monitors, unanswered, lines, failed, exit>>

\* A batch counts a failed line and goes on; a suspect connection or an output
\* that cannot be written aborts it.
BatchDone ==
    /\ pc = "op" /\ step = "done" /\ mode = "batch"
    /\ \/ res \in Fatal /\ fatal' = res /\ pc' = "close" /\ UNCHANGED failed
       \/ res \notin Fatal \cup {"ok"} /\ failed' = failed + 1 /\ pc' = "prompt" /\ UNCHANGED fatal
       \/ res = "ok" /\ pc' = "prompt" /\ UNCHANGED <<failed, fatal>>
       \/ res = "ok" /\ fatal' = "local" /\ pc' = "close" /\ UNCHANGED failed
    /\ errs' = errs \cup (IF res = "ok" THEN {} ELSE {"line"})
    /\ op' = NoOp /\ step' = "none"
    /\ UNCHANGED <<res, at, consent, existing, reply, mode, human, tty, dataVars>>
    /\ UNCHANGED <<top, handler, caught, signals, forward, monitors, unanswered, lines, exit>>

(***************************************************************************)
(* watch.  `at' is the next path to register or unregister, `existing' the *)
(* last one to unregister, `res' what the process will report.             *)
(***************************************************************************)

watchSame == <<mode, human, tty, cwd, files, trust, reply, consent, op, step, jobs>>
watchProc == <<top, signals, lines, failed, fatal, errs>>

\* monitor_folder(path, on): the phone may do it and the answer get lost.
Monitor(path, on, outcome, did) ==
    /\ Asked(outcome, did)
    /\ monitors' = CASE ~did -> monitors
                     [] did /\ on -> monitors \cup {path}
                     [] OTHER -> monitors \ {path}
    /\ unanswered' = IF outcome = "ok" THEN unanswered \ {path} ELSE unanswered \cup {path}

\* The paths are registered one by one; when one fails, those before it are
\* unregistered.
WatchRegisters ==
    /\ pc = "register" /\ at <= Len(WatchPaths)
    /\ \E o \in {"ok", "refused", "failed"}, did \in BOOLEAN :
          /\ Monitor(WatchPaths[at], TRUE, o, did)
          /\ IF o = "ok" THEN at' = at + 1 /\ UNCHANGED <<pc, res, existing>>
             ELSE /\ res' = app_error(o) /\ pc' = "unregister"
                  /\ existing' = at - 1 /\ at' = 1
    /\ UNCHANGED <<watchSame, watchProc, handler, caught, forward, exit>>

\* subscribe_events, and the first poll of the loop's select.
WatchSubscribes ==
    /\ pc = "register" /\ at > Len(WatchPaths)
    /\ pc' = "events" /\ handler' = TRUE
    /\ UNCHANGED <<watchSame, watchProc, at, existing, res, link, caught, forward, monitors, unanswered, exit>>

\* An event is printed.  The snapshot its envelope needs is always there, and
\* the loop goes on whatever the event was; a Ctrl-C that was ready in the same
\* poll went away with its future.
WatchPrints ==
    /\ pc = "events" /\ caught
    /\ caught' = FALSE
    /\ UNCHANGED <<watchSame, watchProc, pc, at, existing, res, link, handler, forward, monitors,
                   unanswered, exit>>

WatchUnregisters ==
    /\ pc = "unregister" /\ at <= existing
    /\ \E o \in {"ok", "refused", "failed"}, did \in BOOLEAN :
          Monitor(WatchPaths[at], FALSE, o, did)
    /\ at' = at + 1
    /\ UNCHANGED <<watchSame, watchProc, pc, existing, res, handler, caught, forward, exit>>

\* runtime.shutdown, and the error that ended the command.
WatchEnds ==
    /\ pc = "unregister" /\ at > existing
    /\ Exit(res)
    /\ UNCHANGED <<still, proc>>

(***************************************************************************)
(* Ctrl-C and the connection.                                              *)
(***************************************************************************)

\* Futures that listen: the select around every command that does not handle
\* Ctrl-C itself, the loop of watch, the waits of sync run and sync watch,
\* and the select around a command of the shell.
Listening ==
    \/ top.name \notin SelfHandling
    \/ pc = "events"
    \/ mode = "one" /\ pc = "op" /\ step \in {"ask_i", "sleep", "events"}
    \/ mode = "shell" /\ pc = "op"

\* SIGINT.  At a shell prompt the terminal is raw and there is no signal.
CtrlC ==
    /\ pc # "exited" /\ signals < MaxSignals
    /\ ~(mode = "shell" /\ pc = "prompt")
    /\ signals' = signals + 1
    /\ IF ~handler THEN pc' = "exited" /\ exit' = "killed" /\ UNCHANGED caught
       ELSE caught' = (caught \/ Listening) /\ UNCHANGED <<pc, exit>>
    /\ UNCHANGED <<cliVars, top, handler, forward, monitors, unanswered, lines, failed, fatal, errs>>

\* The thread is inside a blocking read of stdin and polls nothing.
Blocking == step = "ask" \/ (mode = "batch" /\ pc = "prompt")

\* The select of cli_main drops the command with everything it holds.
TopLevelInterrupt ==
    /\ caught /\ pc # "exited" /\ top.name \notin SelfHandling /\ ~Blocking
    /\ Exit("interrupted")
    /\ UNCHANGED <<still, proc>>

\* watch unregisters every path and reports the interrupt.
WatchInterrupt ==
    /\ caught /\ pc = "events"
    /\ pc' = "unregister" /\ at' = 1 /\ existing' = Len(WatchPaths) /\ res' = "interrupted"
    /\ caught' = FALSE
    /\ UNCHANGED <<watchSame, watchProc, link, handler, forward, monitors, unanswered, exit>>

\* Mutant of SyncInterrupt: the watch is left to the session's end.
SyncInterrupt_keeps_watch ==
    /\ caught /\ pc = "op" /\ step \in {"ask_i", "sleep", "events"}
    /\ job' = (IF step = "sleep" THEN "none" ELSE job)
    /\ Ended("interrupted")
    /\ caught' = FALSE
    /\ UNCHANGED <<same, files, link, at, consent, watching>>
    /\ UNCHANGED <<top, pc, handler, signals, forward, monitors, unanswered, lines, failed,
                   fatal, errs, exit>>

\* sync run and sync watch stop the run (stop_sync) or the watch
\* (stop_sync_watch) they are waiting for.
SyncInterrupt ==
    /\ caught /\ pc = "op" /\ step \in {"ask_i", "sleep", "events"}
    /\ job' = (IF step = "sleep" THEN "none" ELSE job)
    /\ watching' = (IF step = "events" THEN FALSE ELSE watching)
    /\ Ended("interrupted")
    /\ caught' = FALSE
    /\ UNCHANGED <<same, files, link, at, consent>>
    /\ UNCHANGED <<top, pc, handler, signals, forward, monitors, unanswered, lines, failed,
                   fatal, errs, exit>>

\* The shell drops the running command; a pull also ends the shell, so that
\* the phone stops sending.
ShellInterrupt ==
    /\ caught /\ pc = "op" /\ mode = "shell" /\ step # "done" /\ ~Blocking
    /\ caught' = FALSE
    /\ IF op.name = "pull"
       THEN fatal' = "interrupted" /\ pc' = "close" /\ UNCHANGED <<step, res>>
       ELSE Ended("interrupted") /\ UNCHANGED <<fatal, pc>>
    /\ UNCHANGED <<same, files, jobs, link, at, consent>>
    /\ UNCHANGED <<top, handler, signals, forward, monitors, unanswered, lines, failed, errs, exit>>

\* The cable is pulled or the phone leaves.
LinkLost ==
    /\ link = "up" /\ link' = "lost"
    /\ UNCHANGED <<mode, human, tty, cmdVars, cwd, files, trust, jobs, procVars>>

\* Somebody else creates the local file a pull is about to write (external).
LocalAppears ==
    /\ pc = "op" /\ op.name = "pull"
    /\ \E n \in DOMAIN loc : loc[n] = "none" /\ loc' = [loc EXCEPT ![n] = "file"]
    /\ UNCHANGED <<mode, human, tty, cmdVars, cwd, link, rfs, clip, thumbs, trust, jobs, procVars>>

\* Somebody else removes an entry of the phone while a command waits
\* (external).
PhoneRemoves ==
    /\ pc = "op" /\ step \notin {"none", "done", "act"}
    /\ \E p \in Volatile : Exists(rfs[p]) /\ rfs' = [rfs EXCEPT ![p] = "none"]
    /\ UNCHANGED <<mode, human, tty, cmdVars, cwd, link, loc, clip, thumbs, trust, jobs, procVars>>

Progress ==
    \/ Dispatch \/ select_device_descriptor \/ ConnectForwards \/ ConnectSession
    \/ SessionReady \/ Execute \/ Unreachable \/ DetachedDone \/ OneShotDone \/ close_session
    \/ ChangeDirectory \/ ShellDone \/ BatchDone \/ WatchRegisters \/ WatchSubscribes
    \/ WatchUnregisters \/ WatchEnds
Interrupts == TopLevelInterrupt \/ WatchInterrupt \/ SyncInterrupt \/ ShellInterrupt
Environment == UserAnswers \/ Background \/ CtrlC \/ LinkLost \/ LocalAppears \/ PhoneRemoves
               \/ ReadLine \/ WatchPrints

Next == Progress \/ Interrupts \/ Environment

\* The process keeps running; the user answers a prompt that can take the
\* answer; a batch's input ends; a sync run ends by itself.
Fairness ==
    /\ WF_vars(Progress) /\ WF_vars(Interrupts)
    /\ WF_vars(UserAnswers) /\ WF_vars(Background)
    /\ WF_vars(mode = "batch" /\ ReadLine)

Spec == Init /\ [][Next]_vars /\ Fairness

(***************************************************************************)
(* Properties.                                                             *)
(***************************************************************************)

\* The running command deletes p.
Gone(p) == op.name = "rm" /\ step = "act" /\ Exists(rfs[p]) /\ rfs'[p] = "none"

\* Nothing is deleted, forgotten or synchronised, and no file that the plan
\* found in the way is replaced, before the user of this very command agreed
\* (confirm, confirm_interruptible; plan.md 3.7 and 3.8).  A file that turned
\* up after the plan is replaced only under --overwrite.
NothingLostUnasked ==
    [][/\ (\E p \in DOMAIN rfs : Gone(p)) => consent
       /\ clip \ clip' # {} => consent
       /\ trust \ trust' # {} => consent
       /\ job # "running" /\ job' = "running" => consent
       /\ (\E n \in DOMAIN loc : loc[n] = "file" /\ loc'[n] = "newfile")
             => op.overwrite /\ (existing > 0 => consent)
       /\ (\E p \in DOMAIN rfs : rfs[p] = "file" /\ rfs'[p] = "newfile") => op.overwrite /\ consent
      ]_vars

\* fs rm looks at every path before it deletes one: a directory goes only with
\* --recursive, at whatever place of the argument list it stands.
DirectoriesNeedRecursive ==
    [][\A p \in DOMAIN rfs : Gone(p) /\ IsDir(rfs[p]) => op.recursive]_vars

\* The user's data is safe from commands that were not confirmed, and a directory
\* from an rm that was not told to recurse.
DataKept == NothingLostUnasked /\ DirectoriesNeedRecursive

\* Whatever way the process ends by itself, the adb forward is gone, and the
\* phone watches no directory for it but one whose request went unanswered
\* (main.rs, watch).
NothingLeftBehind ==
    pc = "exited" /\ exit # "killed" => ~forward /\ monitors \subseteq unanswered

\* sync run and sync watch close the session only when their run is over and
\* their watch unregistered, interrupted or not (main.rs, sync_command).
SyncOver ==
    mode = "one" /\ pc = "close" /\ link = "up" => job # "running" /\ ~watching

\* With all values of their types: a process that ends has cleaned up what it set
\* up, on the adb server, on the phone and in the runtime (main.rs, watch,
\* sync_command).
CleanedUp == TypeOK /\ NothingLeftBehind /\ SyncOver

\* The exit code: 0 means that every command line was understood and
\* succeeded, what aborted a batch or a shell is what it reports, and a
\* one-shot command reports its own error (run, run_shell, run_batch).
ExitTellsOutcome ==
    pc = "exited" /\ exit \notin {"killed", "interrupted"} =>
        /\ mode = "batch" /\ exit = "ok" => "line" \notin errs
        /\ mode # "one" /\ fatal # "none" => exit = fatal
        /\ mode = "one" /\ res \in Errors => exit = res

\* A thumbnail file holds the picture it is named after, whatever order or
\* number of answers the phone sends (media_command).
ThumbnailsMatch == \A t \in thumbs : t[1] = t[2]

\* What the process hands to its user is true: the exit code, and the names of
\* the pictures it wrote (run_shell, run_batch, media_command).
ResultsTrue == ExitTellsOutcome /\ ThumbnailsMatch

\* A one-shot command and a batch end (run, run_batch, wait_sync_run).
CommandEnds ==
    <>(pc = "exited" \/ mode \in {"shell", "watch"} \/ top.name = "sync_watch")
=============================================================================
