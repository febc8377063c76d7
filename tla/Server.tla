------------------------------- MODULE Server -------------------------------
(***************************************************************************)
(* The server process (src/server/main.cc) and its configuration           *)
(* (src/server/config.cc): the file is read line by line, the engine's     *)
(* shards are started, the bootstrap queues created through them, and the  *)
(* main thread polls a flag that SIGINT and SIGTERM set, then stops the    *)
(* engine.  A signal may come at any moment, also before its handler is    *)
(* installed; an exception on a worker thread ends the process.            *)
(***************************************************************************)
EXTENDS Integers, Sequences, FiniteSets

CONSTANTS
    Files,          \* configuration files: sequences of lines
    Defaults,       \* EngineOptions and ServerConfig: a value for each key
    M32, M64,       \* 2^32 and 2^64
    MsPerS, SPerM, MPerH,  \* 1000, 60 and 60
    Hash,           \* std::hash of a queue name
    OpenOutcomes,   \* what opening a queue's segment may come to
    MaxThreads      \* threads the system grants before std::thread throws

Uint32Keys == {"shard_count", "max_inflight", "max_queue_depth", "max_retry_count"}
Uint64Keys == {"max_segment_size_bytes"}
DurationKeys == {"visibility_timeout", "retry_backoff", "scheduler_tick",
                 "retention", "shutdown_grace"}
NumberKeys == Uint32Keys \cup Uint64Keys \cup DurationKeys
Keys == NumberKeys \cup {"data_dir", "fsync_policy", "bootstrap_queues"}

\* A number as it is written: a sign, digits, and what follows them.
Text == [neg: BOOLEAN, digits: Nat, rest: {"", "ms", "s", "m", "h", "other"}]

\* A line: blank or comment, without a key, or key = value.
LineOK(line) ==
    /\ line.key \in NumberKeys => line.value \in Text
    /\ line.key = "bootstrap_queues" => line.value \in Seq(DOMAIN Hash)

ASSUME ModuliAssumption ==
    /\ M32 \in Nat \ {0} /\ M64 \in Nat \ {0, 1} /\ M32 <= M64
    /\ MsPerS \in Nat /\ SPerM \in Nat /\ MPerH \in Nat
ASSUME FilesAssumption ==
    \A file \in Files :
        /\ Len(file) \in Nat /\ DOMAIN file = 1 .. Len(file)
        /\ \A i \in DOMAIN file : LineOK(file[i])
\* The defaults are values of the fields' types.
ASSUME DefaultsAssumption ==
    /\ DOMAIN Defaults = Keys /\ Defaults["data_dir"] # ""
    /\ Defaults["bootstrap_queues"] \in Seq(DOMAIN Hash)
    /\ \A k \in Uint32Keys : Defaults[k] \in 0 .. M32 - 1
    /\ \A k \in DurationKeys : Defaults[k] \in -M64 .. M64 - 1
ASSUME EnvironmentAssumption ==
    /\ OpenOutcomes \subseteq {"opened", "error", "throws"}
    /\ MaxThreads \in Nat

VARIABLES
    file,       \* the lines of the file --config names, or Missing
    line,       \* lines read
    cfg,        \* cfg: a value for each key
    pc,         \* where main is
    handled,    \* the signals that have a handler
    g_shutdown,
    workers,    \* shards_: workers started and not joined
    queues,     \* the keys of queues_
    created,    \* bootstrap queues main has handled
    call,       \* the CreateQueue in progress: "none", "submitted" or its status
    code        \* how the process ended, "" while it runs

vars == <<file, line, cfg, pc, handled, g_shutdown, workers, queues, created, call, code>>
engine == <<workers, queues, created, call>>

Missing == <<[key |-> "(missing)"]>>
Alive == code = ""

Init ==
    /\ file \in Files \cup {Missing}
    /\ line = 0 /\ cfg = Defaults /\ pc = "load"
    /\ handled = {} /\ g_shutdown = FALSE
    /\ workers = 0 /\ queues = {} /\ created = 0 /\ call = "none"
    /\ code = ""

-----------------------------------------------------------------------------
(* Parsing: <<value>>, or Error.                                           *)

Error == <<>>

\* stoull: a minus sign negates in 64 bits; too many digits, or anything
\* after the digits, is an error.
ParseUint(text) ==
    IF text.digits >= M64 \/ text.rest # "" THEN Error
    ELSE IF text.neg THEN <<(M64 - text.digits) % M64>> ELSE <<text.digits>>

\* Mutant: hours are taken for minutes.
MultiplierNoHours(unit) ==
    CASE unit = "s" -> MsPerS [] unit \in {"m", "h"} -> SPerM * MsPerS [] OTHER -> 1

Multiplier(unit) ==
    CASE unit = "s" -> MsPerS
      [] unit = "m" -> SPerM * MsPerS
      [] unit = "h" -> MPerH * SPerM * MsPerS
      [] OTHER -> 1

\* Mutant: the suffix "s" is looked for before "ms".
SuffixSFirst(text) ==
    IF text.rest = "ms" THEN <<"s", "m">>
    ELSE IF text.rest = "other" THEN <<"", "other">> ELSE <<text.rest, "">>

\* The unit a duration ends in, and what is left between it and the digits.
Suffix(text) == IF text.rest = "other" THEN <<"", "other">> ELSE <<text.rest, "">>

Signed64(n) == IF n >= M64 \div 2 THEN n - M64 ELSE n

\* The product is taken in 64 bits and stored in a signed count.
ParseDurationMs(text) ==
    LET count == ParseUint([text EXCEPT !.rest = Suffix(text)[2]])
    IN  IF count = Error THEN Error
        ELSE <<Signed64((count[1] * Multiplier(Suffix(text)[1])) % M64)>>

\* Mutant: the value is not narrowed.
NarrowNot(n) == n
\* static_cast<uint32_t>
Narrow(n) == n % M32

\* What a line's value comes to for its key.
Parsed(l) ==
    CASE l.key \in Uint32Keys ->
            (IF ParseUint(l.value) = Error THEN Error
             ELSE <<Narrow(ParseUint(l.value)[1])>>)
      [] l.key \in Uint64Keys -> ParseUint(l.value)
      [] l.key \in DurationKeys -> ParseDurationMs(l.value)
      [] l.key = "fsync_policy" ->
            (IF l.value \in {"always", "interval", "never"} THEN <<l.value>> ELSE Error)
      [] l.key \in {"data_dir", "bootstrap_queues"} -> <<l.value>>
      [] OTHER -> Error

-----------------------------------------------------------------------------
(* main.                                                                   *)

Exit(status) == code' = status /\ pc' = "exit"

\* No --config argument: nothing is read.
Usage ==
    /\ pc = "load" /\ Alive /\ line = 0 /\ file = Missing
    /\ Exit("2")
    /\ UNCHANGED <<file, line, cfg, handled, g_shutdown, engine>>

\* The file cannot be opened.
Unreadable ==
    /\ pc = "load" /\ Alive /\ line = 0 /\ file = Missing
    /\ Exit("3")
    /\ UNCHANGED <<file, line, cfg, handled, g_shutdown, engine>>

LoadLine ==
    /\ pc = "load" /\ Alive /\ file # Missing /\ line < Len(file)
    /\ LET l == file[line + 1]
       IN  IF l.key = "(blank)" THEN UNCHANGED <<cfg, pc, code>>
           ELSE IF Parsed(l) = Error THEN Exit("3") /\ UNCHANGED cfg
           ELSE cfg' = [cfg EXCEPT ![l.key] = Parsed(l)[1]] /\ UNCHANGED <<pc, code>>
    /\ line' = line + 1
    /\ UNCHANGED <<file, handled, g_shutdown, engine>>

LoadEnd ==
    /\ pc = "load" /\ Alive /\ file # Missing /\ line = Len(file)
    /\ IF cfg["data_dir"] = "" THEN Exit("3") ELSE pc' = "signals" /\ UNCHANGED code
    /\ UNCHANGED <<file, line, cfg, handled, g_shutdown, engine>>

\* std::signal(SIGINT, ...), then std::signal(SIGTERM, ...)
InstallHandler ==
    /\ pc = "signals" /\ Alive
    /\ handled' = IF "SIGINT" \in handled THEN {"SIGINT", "SIGTERM"} ELSE {"SIGINT"}
    /\ pc' = IF "SIGINT" \in handled THEN "start" ELSE "signals"
    /\ UNCHANGED <<file, line, cfg, g_shutdown, engine, code>>

\* QueueEngine::Start: one worker after the other; a thread the system does
\* not grant is an exception nobody catches.
StartShard ==
    /\ pc = "start" /\ Alive
    /\ IF cfg["shard_count"] = 0 THEN Exit("4") /\ UNCHANGED workers
       ELSE IF workers = cfg["shard_count"]
       THEN pc' = "bootstrap" /\ UNCHANGED <<workers, code>>
       ELSE IF workers = MaxThreads THEN Exit("aborted") /\ UNCHANGED workers
       ELSE workers' = workers + 1 /\ UNCHANGED <<pc, code>>
    /\ UNCHANGED <<file, line, cfg, handled, g_shutdown, queues, created, call>>

Queue == cfg["bootstrap_queues"][created + 1]

ShardForQueue(q) == Hash[q] % cfg["shard_count"]

\* CreateQueue is submitted to the queue's shard; main waits for its future.
SubmitCreate ==
    /\ pc = "bootstrap" /\ Alive /\ call = "none"
    /\ created < Len(cfg["bootstrap_queues"])
    /\ call' = "submitted"
    /\ UNCHANGED <<file, line, cfg, pc, handled, g_shutdown, workers, queues, created, code>>

\* CreateQueueOnShard on the worker: Open reports an error, or the creation
\* of the directory throws, which on a worker thread is std::terminate.
CreateQueueOnShard ==
    /\ Alive /\ call = "submitted" /\ ShardForQueue(Queue) < workers
    /\ \/ Queue \in queues /\ call' = "exists" /\ UNCHANGED <<pc, queues, code>>
       \/ /\ Queue \notin queues
          /\ \E outcome \in OpenOutcomes :
                \/ /\ outcome = "opened" /\ call' = "ok" /\ queues' = queues \cup {Queue}
                   /\ UNCHANGED <<pc, code>>
                \/ outcome = "error" /\ call' = "error" /\ UNCHANGED <<pc, queues, code>>
                \/ outcome = "throws" /\ Exit("aborted") /\ UNCHANGED <<call, queues>>
    /\ UNCHANGED <<file, line, cfg, handled, g_shutdown, workers, created>>

\* Mutant: any error of CreateQueue is tolerated.
ToleratedAny == {"ok", "exists", "error"}
\* kAlreadyExists is not an error: the list may name a queue twice.
Tolerated == {"ok", "exists"}

Created ==
    /\ pc = "bootstrap" /\ Alive /\ call \notin {"none", "submitted"}
    /\ IF call \in Tolerated THEN created' = created + 1 /\ UNCHANGED pc
       ELSE pc' = "abandon" /\ UNCHANGED created
    /\ call' = "none"
    /\ UNCHANGED <<file, line, cfg, handled, g_shutdown, workers, queues, code>>

\* Mutant: the flag is cleared when the loop is entered.
ServeResetting ==
    /\ pc = "bootstrap" /\ Alive /\ call = "none"
    /\ created = Len(cfg["bootstrap_queues"])
    /\ pc' = "serving" /\ g_shutdown' = FALSE
    /\ UNCHANGED <<file, line, cfg, handled, engine, code>>

Serve ==
    /\ pc = "bootstrap" /\ Alive /\ call = "none"
    /\ created = Len(cfg["bootstrap_queues"])
    /\ pc' = "serving"
    /\ UNCHANGED <<file, line, cfg, handled, g_shutdown, engine, code>>

\* The loop that polls the flag every 200 ms sees it set.
Poll ==
    /\ pc = "serving" /\ Alive /\ g_shutdown
    /\ pc' = "stop"
    /\ UNCHANGED <<file, line, cfg, handled, g_shutdown, engine, code>>

\* QueueEngine::Stop, one shard after the other, then the exit code of the
\* path that has led here.  Stop never reports an error (exit code 6).
StopShard ==
    /\ pc \in {"stop", "abandon"} /\ Alive
    /\ IF workers = 0 THEN Exit(IF pc = "stop" THEN "0" ELSE "5") /\ UNCHANGED workers
       ELSE workers' = workers - 1 /\ UNCHANGED <<pc, code>>
    /\ UNCHANGED <<file, line, cfg, handled, g_shutdown, queues, created, call>>

\* A signal without a handler kills the process.
Signal(s) ==
    /\ Alive
    /\ IF s \in handled THEN g_shutdown' = TRUE /\ UNCHANGED <<pc, code>>
       ELSE Exit("killed") /\ UNCHANGED g_shutdown
    /\ UNCHANGED <<file, line, cfg, handled, engine>>

Main ==
    \/ Usage \/ Unreadable \/ LoadLine \/ LoadEnd \/ InstallHandler \/ StartShard
    \/ SubmitCreate \/ Created \/ Serve \/ Poll \/ StopShard

Next == Main \/ CreateQueueOnShard \/ \E s \in {"SIGINT", "SIGTERM"} : Signal(s)

\* The main thread and the worker of a submitted call run; nobody has to
\* send a signal.
Spec == Init /\ [][Next]_vars /\ WF_vars(Main) /\ WF_vars(CreateQueueOnShard)

-----------------------------------------------------------------------------
(* Properties.                                                             *)

\* Types; the narrowed settings within their fields.
TypeOK ==
    /\ line \in Nat /\ created \in Nat /\ g_shutdown \in BOOLEAN
    /\ pc \in {"load", "signals", "start", "bootstrap", "serving", "stop", "abandon", "exit"}
    /\ code \in {"", "0", "2", "3", "4", "5", "killed", "aborted"}
    /\ Alive <=> pc # "exit"
    /\ DOMAIN cfg = Keys /\ \A k \in Uint32Keys : cfg[k] \in 0 .. M32 - 1
    /\ \A k \in DurationKeys : cfg[k] \in -M64 .. M64 - 1
    /\ workers \in 0 .. cfg["shard_count"]

\* A reference for the parser: what the file says about a key is what its
\* last line for the key says.
LinesFor(key) == {i \in DOMAIN file : file[i].key = key}
LastFor(key) == file[CHOOSE i \in LinesFor(key) : \A j \in LinesFor(key) : j <= i].value
BadLine(l) ==
    /\ l.key # "(blank)"
    /\ \/ l.key \notin Keys
       \/ l.key \in NumberKeys /\ \/ l.value.digits >= M64
                                  \/ l.value.rest \notin IF l.key \in DurationKeys
                                        THEN {"", "ms", "s", "m", "h"} ELSE {""}
       \/ l.key = "fsync_policy" /\ l.value \notin {"always", "interval", "never"}
Rejected ==
    \/ \E i \in DOMAIN file : BadLine(file[i])
    \/ LinesFor("data_dir") # {} /\ LastFor("data_dir") = ""

\* The number a line means, and the largest its field holds.
Meant(key, text) ==
    text.digits * (CASE key \notin DurationKeys \/ text.rest \in {"", "ms"} -> 1
                     [] text.rest = "s" -> MsPerS
                     [] text.rest = "m" -> MsPerS * SPerM
                     [] text.rest = "h" -> MsPerS * SPerM * MPerH)
Largest(key) == IF key \in Uint32Keys THEN M32 - 1
                ELSE IF key \in Uint64Keys THEN M64 - 1 ELSE M64 \div 2 - 1

\* Once the server goes on from its configuration, each setting is what the
\* last line for it means, if that fits the field, and its default if there
\* is no line: no truncation, unit or earlier line gets in the way.
ConfigAsWritten ==
    (pc \notin {"load", "exit"}) =>
        /\ \A key \in NumberKeys :
              LET text == LastFor(key)
              IN  IF LinesFor(key) = {} THEN cfg[key] = Defaults[key]
                  ELSE (~text.neg /\ Meant(key, text) <= Largest(key))
                          => cfg[key] = Meant(key, text)
        /\ \A key \in Keys \ NumberKeys :
              cfg[key] = IF LinesFor(key) = {} THEN Defaults[key] ELSE LastFor(key)

\* The exit code says why the server ended (docs/design/
\* SERVER_RUNTIME_NOTES.md:33-35): 3 exactly for a file it has to reject, 4
\* and 5 only after a good file, 5 for a queue that is not there, 0 only
\* when a signal has asked for it, with every queue ready; and every worker
\* is joined before main returns.
ExitExplains ==
    /\ code = "3" => file = Missing \/ Rejected
    /\ (pc \notin {"load", "exit"} \/ code \in {"0", "4", "5"}) => ~Rejected
    /\ code = "0" => g_shutdown /\ created = Len(cfg["bootstrap_queues"])
    /\ code \in {"0", "2", "3", "4", "5"} => workers = 0
    /\ code = "5" => created < Len(cfg["bootstrap_queues"]) /\ Queue \notin queues

\* docs/design/SERVER_RUNTIME_NOTES.md:8,18: the server serves only with
\* every shard running and every queue the configuration names recovered,
\* however often it names it.
ServesComplete ==
    pc = "serving" =>
        /\ workers = cfg["shard_count"] /\ workers > 0
        /\ queues = {cfg["bootstrap_queues"][i] : i \in DOMAIN cfg["bootstrap_queues"]}

\* docs/design/SERVER_RUNTIME_NOTES.md:9: a signal the server has a handler
\* for ends it, also when it comes before the server serves.
SignalStops == g_shutdown ~> ~Alive
=============================================================================
