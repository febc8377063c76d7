------------------------------ MODULE MCServer ------------------------------
(* Server for TLC: every file of up to two lines out of a list that has a  *)
(* line for each class of value, boundary and error, and a bootstrap list. *)
EXTENDS Server

Number(key, neg, digits, rest) ==
    [key |-> key, value |-> [neg |-> neg, digits |-> digits, rest |-> rest]]
Setting(key, value) == [key |-> key, value |-> value]

NumberLines ==
    {Number("shard_count", FALSE, n, "") : n \in {0, 2, 16, 17, 255, 256}}
    \cup {Number("shard_count", TRUE, 1, ""), Number("shard_count", FALSE, 1, "s"),
          Number("max_segment_size_bytes", FALSE, 255, "")}
    \cup {Number("visibility_timeout", FALSE, 5, unit) : unit \in {"", "ms", "s", "m", "h", "other"}}
    \cup {Number("visibility_timeout", FALSE, 11, "h"), Number("visibility_timeout", TRUE, 1, "ms")}

OtherLines ==
    {[key |-> "(blank)"], [key |-> "(none)"], Setting("unknown", ""),
     Setting("data_dir", ""), Setting("data_dir", "/data"),
     Setting("fsync_policy", "never"), Setting("fsync_policy", "quoted"),
     Setting("bootstrap_queues", <<>>)}

QueueLines == {Setting("bootstrap_queues", <<"a", "b", "a">>)}

Lines == NumberLines \cup OtherLines \cup QueueLines

MCFiles == {<<>>} \cup {<<l>> : l \in Lines} \cup (Lines \X Lines)
           \cup (QueueLines \X Lines \X NumberLines)

MCDefaults ==
    [k \in Keys |->
        CASE k = "shard_count" -> 1 [] k = "data_dir" -> "/tmp"
          [] k = "fsync_policy" -> "always" [] k = "bootstrap_queues" -> <<>>
          [] OTHER -> 3]

MCHash == [q \in {"a", "b"} |-> IF q = "a" THEN 6 ELSE 3]
=============================================================================
