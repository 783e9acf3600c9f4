----------------------------- MODULE MCServices -----------------------------
(* The small services that share nothing: the initial states choose which of   *)
(* them runs, the others rest in one of their initial states.                  *)
EXTENDS SandboxContainer, Integers, Sequences

CONSTANTS
    Pages, Scripts, Sockets, MaxRequests, MaxFailures, MaxTunnels, MaxProxyMishaps,
    Hidden, ReadOnly, Tokens, GlobLimit, MaxText, MaxEdits,
    PageSize, MaxLines, MaxReads,
    Intervals, MaxTasks, MaxTime, MaxCronMishaps,
    BoardSize, Rows, MaxPlies, MaxSent

VARIABLE service
VARIABLES tunnel, handlers, opened, stage, inbox, table, over, starter, worker, failures, link,
          toWorker, jobs, fromWorker, proxyMishaps
VARIABLES files, order, edit, pager, edits
VARIABLES process, child, renamed, lines, partial, reading, kept, told, reads
VARIABLES clock, file, torn, tick, now, list, at, changed, scheduled, cancelled,
          fired, cronMishaps, damaged
VARIABLES cells, turn, move, woken, offers, last, plies, sent

ASSUME ProxyAssumption ==
    /\ MaxTunnels \in Nat /\ MaxFailures \in Nat \ {0} /\ MaxProxyMishaps \in Nat
    /\ Scripts \cap (Pages \cup Sockets) = {}

ASSUME ShellAssumption == PageSize \in Nat /\ MaxLines \in Nat /\ MaxReads \in Nat

ASSUME SchedulerAssumption ==
    /\ MaxTasks \in Nat /\ MaxTime \in Nat \ {0} /\ MaxCronMishaps \in Nat
    /\ Intervals \subseteq 0..MaxTime

Proxy == INSTANCE SandboxProxy WITH MaxMishaps <- MaxProxyMishaps, mishaps <- proxyMishaps
FileTools == INSTANCE SandboxFiles
    WITH Walked <- <<"f", "h", "r">>, Texts <- {<<"a">>, <<"b", "a">>}, MaxCalls <- MaxEdits,
         calls <- edits
Shell == INSTANCE ShellLog WITH Limit <- PageSize, over <- told
Scheduler == INSTANCE Cron WITH MaxMishaps <- MaxCronMishaps, mishaps <- cronMishaps
Game == INSTANCE Checkers WITH Size <- BoardSize, stage <- turn

proxyVars == <<tunnel, handlers, opened, stage, inbox, table, over, starter, worker, failures,
               link, toWorker, jobs, fromWorker, proxyMishaps>>
fileVars == <<files, order, edit, pager, edits>>
shellVars == <<process, child, renamed, lines, partial, reading, kept, told, reads>>
schedulerVars == <<clock, file, torn, tick, now, list, at, changed, scheduled, cancelled,
                   fired, cronMishaps, damaged>>
gameVars == <<cells, turn, move, woken, offers, last, plies, sent>>

Resting ==
    /\ service # "sandbox" => config = CHOOSE m \in Mounts : TRUE
    /\ service # "files" =>
        /\ files = [f \in FileTools!Files |-> <<"a">>]
        /\ order = <<"f", "h", "r">>

MCInit ==
    /\ service \in {"sandbox", "proxy", "files", "shell", "cron", "game"}
    /\ Init /\ FileTools!Init /\ Resting
    /\ Proxy!Init /\ Shell!Init /\ Scheduler!Init /\ Game!Init

MCNext ==
    /\ UNCHANGED service
    /\ \/ /\ service = "sandbox" /\ Next
          /\ UNCHANGED <<proxyVars, fileVars, shellVars, schedulerVars, gameVars>>
       \/ /\ service = "proxy" /\ Proxy!Next
          /\ UNCHANGED <<sandboxVars, fileVars, shellVars, schedulerVars, gameVars>>
       \/ /\ service = "files" /\ FileTools!Next
          /\ UNCHANGED <<sandboxVars, proxyVars, shellVars, schedulerVars, gameVars>>
       \/ /\ service = "shell" /\ Shell!Next
          /\ UNCHANGED <<sandboxVars, proxyVars, fileVars, schedulerVars, gameVars>>
       \/ /\ service = "cron" /\ Scheduler!Next
          /\ UNCHANGED <<sandboxVars, proxyVars, fileVars, shellVars, gameVars>>
       \/ /\ service = "game" /\ Game!Next
          /\ UNCHANGED <<sandboxVars, proxyVars, fileVars, shellVars, schedulerVars>>

MCSpec ==
    /\ MCInit
    /\ [][MCNext]_<<service, sandboxVars, proxyVars, fileVars, shellVars, schedulerVars, gameVars>>
    /\ Scheduler!Fairness

-----------------------------------------------------------------------------

\* The values of every service have their types.
MCTypeOK ==
    /\ TypeOK /\ Proxy!TypeOK /\ FileTools!TypeOK /\ Shell!TypeOK
    /\ Scheduler!TypeOK /\ Game!TypeOK

\* The proxy: no request waits for a tunnel that is gone.
NoneForgotten == Proxy!NoneForgotten

\* What is done in steps is what the whole says: the edits of a call one after the other,
\* the pages of a search, and the hops of a move, which the one to move can make.
StepsCompose ==
    FileTools!EditsCompose /\ FileTools!PagesComplete /\ Game!CapturesAgree /\ Game!CanMove

\* The reader of a background shell gets every line, once and whole, however its reads fall
\* between the writes of the process.
ShellReadWhole == Shell!ShellReadWhole

\* Cron: a run is delivered again only after a tick that was cut short, and the tick's
\* save and the tools' saves do not undo each other.
TasksServedOnce == Scheduler!OncePerRun /\ Scheduler!TasksKept

\* Cron: what is due is served, unless an interval of zero cuts every tick short.
DueIsServed == Scheduler!DueIsServed

=============================================================================
