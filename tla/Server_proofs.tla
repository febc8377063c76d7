--------------------------- MODULE Server_proofs ----------------------------
(***************************************************************************)
(* Proofs about the server process (Server), for any configuration files,  *)
(* widths of the fields, names and outcomes of the bootstrap: the parser   *)
(* agrees with its reference, and start, bootstrap and stop keep what the  *)
(* exit code says.                                                         *)
(***************************************************************************)
EXTENDS Server, SequenceTheorems, TLAPS

-----------------------------------------------------------------------------
(* The parser.                                                             *)

LEMMA ModRange ==
  ASSUME NEW a \in Nat, NEW n \in Nat \ {0}
  PROVE  a % n \in 0 .. n - 1 /\ (a < n => a % n = a)
OBVIOUS

\* stoull yields the digits, or their negation in 64 bits.
LEMMA ParseUintValue ==
  ASSUME NEW text \in Text
  PROVE  IF text.digits >= M64 \/ text.rest # "" THEN ParseUint(text) = Error
         ELSE \E n \in 0 .. M64 - 1 :
                 ParseUint(text) = <<n>> /\ (~text.neg => n = text.digits)
<1>1. text.digits \in Nat /\ text.neg \in BOOLEAN /\ M64 \in Nat \ {0}
  BY ModuliAssumption DEF Text
<1>2. CASE text.digits >= M64 \/ text.rest # ""
  BY <1>2 DEF ParseUint
<1>3. CASE ~(text.digits >= M64 \/ text.rest # "")
  <2>0. PICK d \in Nat : d = text.digits /\ ~(d >= M64)
    BY <1>1, <1>3
  <2>1. text.digits \in 0 .. M64 - 1
    <3>1. d \in 0 .. M64 - 1
      BY <1>1, <2>0
    <3> QED
      BY <2>0, <3>1
  <2>2. CASE ~text.neg
    <3>1. ParseUint(text) = <<text.digits>>
      BY <1>3, <2>2 DEF ParseUint
    <3> QED
      BY <1>3, <2>1, <2>2, <3>1
  <2>3. CASE text.neg
    <3>1. PICK a \in Nat : a = M64 - text.digits
      BY <1>1, <2>1
    <3>2. a % M64 \in 0 .. M64 - 1
      BY <1>1, ModRange
    <3>3. ParseUint(text) = <<a % M64>>
      BY <1>3, <2>3, <3>1 DEF ParseUint
    <3> QED
      BY <1>3, <2>3, <3>2, <3>3
  <2> QED
    BY <2>2, <2>3
<1> QED
  BY <1>2, <1>3

\* A 64-bit product, read as a signed number.
LEMMA Signed64Value ==
  ASSUME NEW a \in Nat
  PROVE  /\ Signed64(a % M64) \in -M64 .. M64 - 1
         /\ a <= M64 \div 2 - 1 => Signed64(a % M64) = a
<1>1. M64 \in Nat \ {0, 1}
  BY ModuliAssumption
<1>2. a % M64 \in 0 .. M64 - 1 /\ (a < M64 => a % M64 = a)
  BY <1>1, ModRange
<1>3. PICK h \in Nat : h = M64 \div 2 /\ h < M64
  BY <1>1
<1>4. PICK m \in 0 .. M64 - 1 : m = a % M64 /\ (a < M64 => m = a)
  BY <1>2
<1>5. Signed64(m) = IF m >= h THEN m - M64 ELSE m
  BY <1>3 DEF Signed64
<1>6. Signed64(m) \in -M64 .. M64 - 1 /\ (a <= h - 1 => Signed64(m) = a)
  BY <1>1, <1>3, <1>4, <1>5
<1> QED
  BY <1>3, <1>4, <1>6

\* A duration: the number in front of the unit, times the unit.
LEMMA ParseDurationValue ==
  ASSUME NEW text \in Text, NEW key \in DurationKeys
  PROVE  IF text.digits >= M64 \/ text.rest \notin {"", "ms", "s", "m", "h"}
         THEN ParseDurationMs(text) = Error
         ELSE \E n \in -M64 .. M64 - 1 :
                 /\ ParseDurationMs(text) = <<n>>
                 /\ (~text.neg /\ Meant(key, text) <= Largest(key)) => n = Meant(key, text)
<1> DEFINE left == [text EXCEPT !.rest = Suffix(text)[2]]
<1>1. text.rest \in {"", "ms", "s", "m", "h", "other"} /\ text.digits \in Nat
  BY DEF Text
<1>2. /\ left \in Text /\ left.digits = text.digits /\ left.neg = text.neg
      /\ left.rest = IF text.rest = "other" THEN "other" ELSE ""
  BY <1>1 DEF Text, Suffix
<1>3. CASE text.digits >= M64 \/ text.rest = "other"
  <2>1. ParseUint(left) = Error
    BY <1>2, <1>3, ParseUintValue
  <2>2. ParseDurationMs(text) = Error
    BY <2>1 DEF ParseDurationMs
  <2> QED
    BY <1>1, <1>3, <2>2
<1>4. CASE ~(text.digits >= M64 \/ text.rest = "other")
  <2>1. PICK n \in 0 .. M64 - 1 : ParseUint(left) = <<n>> /\ (~text.neg => n = text.digits)
    BY <1>2, <1>4, ParseUintValue
  <2>2. Suffix(text)[1] = text.rest
    BY <1>4 DEF Suffix
  <2>3. Multiplier(text.rest) \in Nat
    BY ModuliAssumption DEF Multiplier
  <2>4. PICK a \in Nat : a = n * Multiplier(text.rest)
    BY <2>3
  <2>5. <<n>> # Error /\ <<n>>[1] = n
    BY DEF Error
  <2>6. ParseDurationMs(text) = <<Signed64(a % M64)>>
    BY <2>1, <2>2, <2>4, <2>5 DEF ParseDurationMs
  <2>7. ~text.neg => Meant(key, text) = a
    <3>1. SUFFICES ASSUME ~text.neg PROVE Meant(key, text) = text.digits * Multiplier(text.rest)
      BY <2>1, <2>4
    <3>2. CASE text.rest \in {"", "ms"}
      BY <3>2 DEF Meant, Multiplier
    <3>3. CASE text.rest = "s"
      BY <3>3 DEF Meant, Multiplier
    <3>4. CASE text.rest = "m"
      BY <3>4, ModuliAssumption DEF Meant, Multiplier
    <3>5. CASE text.rest = "h"
      BY <3>5, ModuliAssumption DEF Meant, Multiplier
    <3> QED
      BY <1>1, <1>4, <3>2, <3>3, <3>4, <3>5
  <2>8. Largest(key) = M64 \div 2 - 1
    BY DEF Largest, Uint32Keys, Uint64Keys, DurationKeys
  <2>9. /\ Signed64(a % M64) \in -M64 .. M64 - 1
        /\ a <= M64 \div 2 - 1 => Signed64(a % M64) = a
    BY Signed64Value
  <2> QED
    BY <1>1, <1>4, <2>6, <2>7, <2>8, <2>9
<1> QED
  BY <1>3, <1>4

Field(key) ==
    IF key \in Uint32Keys THEN 0 .. M32 - 1
    ELSE IF key \in Uint64Keys THEN 0 .. M64 - 1 ELSE -M64 .. M64 - 1

\* What a line that is accepted sets its key to.
Value(l, v) ==
    /\ l.key \in NumberKeys =>
          /\ v \in Field(l.key)
          /\ (~l.value.neg /\ Meant(l.key, l.value) <= Largest(l.key))
                => v = Meant(l.key, l.value)
    /\ l.key \notin NumberKeys => v = l.value

Others == {"fsync_policy", "data_dir", "bootstrap_queues"}

\* The parser rejects the lines its reference rejects, and takes each other
\* line for what it means.
LEMMA ParsedValue ==
  ASSUME NEW l, LineOK(l), l.key # "(blank)"
  PROVE  /\ BadLine(l) => Parsed(l) = Error
         /\ ~BadLine(l) => l.key \in Keys /\ \E v : Parsed(l) = <<v>> /\ Value(l, v)
<1>0. \A v : <<v>> # Error /\ <<v>>[1] = v
  BY DEF Error
<1>5. \/ l.key \in Uint32Keys /\ l.key \notin Uint64Keys \cup DurationKeys \cup Others
      \/ l.key \in Uint64Keys /\ l.key \notin Uint32Keys \cup DurationKeys \cup Others
      \/ l.key \in DurationKeys /\ l.key \notin Uint32Keys \cup Uint64Keys \cup Others
      \/ l.key \notin NumberKeys
  BY DEF NumberKeys, Uint32Keys, Uint64Keys, DurationKeys, Others
<1>1. CASE l.key \in Uint32Keys
  <2>1. l.value \in Text /\ l.key \in NumberKeys /\ l.key \notin DurationKeys
    BY <1>1 DEF LineOK, NumberKeys, Uint32Keys, DurationKeys
  <2>2. BadLine(l) <=> l.value.digits >= M64 \/ l.value.rest # ""
    BY <2>1, <1>1 DEF BadLine, Keys, Uint32Keys, NumberKeys
  <2>3. CASE BadLine(l)
    <3>1. ParseUint(l.value) = Error
      BY <2>1, <2>2, <2>3, ParseUintValue
    <3> QED
      BY <1>1, <1>5, <2>1, <2>3, <3>1 DEF Parsed, Others
  <2>4. CASE ~BadLine(l)
    <3>1. PICK n \in 0 .. M64 - 1 :
             ParseUint(l.value) = <<n>> /\ (~l.value.neg => n = l.value.digits)
      BY <2>1, <2>2, <2>4, ParseUintValue
    <3>2. Parsed(l) = <<n % M32>>
      BY <1>0, <1>1, <1>5, <2>1, <3>1 DEF Parsed, Narrow, Others
    <3>3. n \in Nat /\ M32 \in Nat \ {0}
      BY ModuliAssumption
    <3>4. n % M32 \in 0 .. M32 - 1 /\ (n < M32 => n % M32 = n)
      BY <3>3, ModRange
    <3>5. Meant(l.key, l.value) = l.value.digits
      <4>1. l.value.rest = ""
        BY <2>2, <2>4
      <4>2. Meant(l.key, l.value) = l.value.digits * 1
        BY <2>1, <4>1 DEF Meant
      <4>3. l.value.digits \in Nat
        BY <2>1 DEF Text
      <4> QED
        BY <4>2, <4>3
    <3>6. Largest(l.key) = M32 - 1 /\ Field(l.key) = 0 .. M32 - 1
      BY <1>1 DEF Largest, Field
    <3>7. Value(l, n % M32)
      BY <2>1, <3>1, <3>3, <3>4, <3>5, <3>6 DEF Value
    <3>8. l.key \in Keys
      BY <2>1 DEF Keys
    <3> QED
      BY <2>4, <3>2, <3>7, <3>8
  <2> QED
    BY <2>3, <2>4
<1>2. CASE l.key \in Uint64Keys
  <2>1. /\ l.value \in Text /\ l.key \in NumberKeys
        /\ l.key \notin DurationKeys /\ l.key \notin Uint32Keys
    BY <1>2 DEF LineOK, NumberKeys, Uint32Keys, Uint64Keys, DurationKeys
  <2>2. BadLine(l) <=> l.value.digits >= M64 \/ l.value.rest # ""
    BY <2>1, <1>2 DEF BadLine, Keys, Uint64Keys, NumberKeys
  <2>3. Parsed(l) = ParseUint(l.value)
    BY <1>2, <1>5, <2>1 DEF Parsed, Others
  <2>4. CASE BadLine(l)
    BY <2>1, <2>2, <2>3, <2>4, ParseUintValue
  <2>5. CASE ~BadLine(l)
    <3>1. PICK n \in 0 .. M64 - 1 :
             ParseUint(l.value) = <<n>> /\ (~l.value.neg => n = l.value.digits)
      BY <2>1, <2>2, <2>5, ParseUintValue
    <3>2. Meant(l.key, l.value) = l.value.digits
      <4>1. l.value.rest = ""
        BY <2>2, <2>5
      <4>2. Meant(l.key, l.value) = l.value.digits * 1
        BY <2>1, <4>1 DEF Meant
      <4>3. l.value.digits \in Nat
        BY <2>1 DEF Text
      <4> QED
        BY <4>2, <4>3
    <3>3. Value(l, n)
      BY <1>2, <2>1, <3>1, <3>2 DEF Value, Field
    <3>4. l.key \in Keys
      BY <2>1 DEF Keys
    <3> QED
      BY <2>3, <2>5, <3>1, <3>3, <3>4
  <2> QED
    BY <2>4, <2>5
<1>3. CASE l.key \in DurationKeys
  <2>1. /\ l.value \in Text /\ l.key \in NumberKeys
        /\ l.key \notin Uint64Keys /\ l.key \notin Uint32Keys
    BY <1>3 DEF LineOK, NumberKeys, Uint32Keys, Uint64Keys, DurationKeys
  <2>2. BadLine(l) <=>
           l.value.digits >= M64 \/ l.value.rest \notin {"", "ms", "s", "m", "h"}
    BY <2>1, <1>3 DEF BadLine, Keys, DurationKeys, NumberKeys
  <2>3. Parsed(l) = ParseDurationMs(l.value)
    BY <1>3, <1>5, <2>1 DEF Parsed, Others
  <2>4. CASE BadLine(l)
    BY <1>3, <2>1, <2>2, <2>3, <2>4, ParseDurationValue
  <2>5. CASE ~BadLine(l)
    <3>1. PICK n \in -M64 .. M64 - 1 :
             /\ ParseDurationMs(l.value) = <<n>>
             /\ (~l.value.neg /\ Meant(l.key, l.value) <= Largest(l.key))
                   => n = Meant(l.key, l.value)
      BY <1>3, <2>1, <2>2, <2>5, ParseDurationValue
    <3>2. Value(l, n)
      BY <2>1, <3>1 DEF Value, Field
    <3>3. l.key \in Keys
      BY <2>1 DEF Keys
    <3> QED
      BY <2>3, <2>5, <3>1, <3>2, <3>3
  <2> QED
    BY <2>4, <2>5
<1>4. CASE l.key \notin NumberKeys
  <2>1. l.key \notin Uint32Keys /\ l.key \notin Uint64Keys /\ l.key \notin DurationKeys
    BY <1>4 DEF NumberKeys
  <2>2. CASE l.key = "fsync_policy"
    BY <1>4, <2>1, <2>2 DEF BadLine, Parsed, Keys, Value
  <2>3. CASE l.key \in {"data_dir", "bootstrap_queues"}
    BY <1>4, <2>1, <2>3 DEF BadLine, Parsed, Keys, Value
  <2>4. CASE l.key \notin {"fsync_policy", "data_dir", "bootstrap_queues"}
    <3>1. l.key \notin Keys
      BY <1>4, <2>4 DEF Keys
    <3>2. BadLine(l) /\ Parsed(l) = Error
      BY <2>1, <2>4, <3>1 DEF BadLine, Parsed
    <3> QED
      BY <3>2
  <2> QED
    BY <2>2, <2>3, <2>4
<1> QED
  BY <1>1, <1>2, <1>3, <1>4 DEF NumberKeys

-----------------------------------------------------------------------------
(* The inductive invariant.                                                *)

Calls == {"none", "submitted", "ok", "exists", "error"}

Types ==
    /\ TypeOK
    /\ Len(file) \in Nat /\ DOMAIN file = 1 .. Len(file)
    /\ \A i \in DOMAIN file : LineOK(file[i])
    /\ line <= Len(file)
    /\ cfg["bootstrap_queues"] \in Seq(DOMAIN Hash)
    /\ call \in Calls

\* The lines read so far that set a key.
LinesRead(key) == {i \in 1 .. line : file[i].key = key}

\* While the file is read: no line was bad, and each setting is what the last
\* line for it came to.
LinesTaken ==
    /\ \A i \in 1 .. line : ~BadLine(file[i])
    /\ \A key \in Keys :
          IF LinesRead(key) = {} THEN cfg[key] = Defaults[key]
          ELSE \E i \in LinesRead(key) :
                  (\A j \in LinesRead(key) : j <= i) /\ Value(file[i], cfg[key])

LoadInv ==
    pc # "exit" =>
        /\ LinesTaken
        /\ pc # "load" => file # Missing /\ line = Len(file) /\ cfg["data_dir"] # ""

\* The names main has handled; the one in progress is there once its call is Ok.
Named(n) == {cfg["bootstrap_queues"][i] : i \in 1 .. n}
Done == created + (IF call \in {"ok", "exists"} THEN 1 ELSE 0)

\* Start, bootstrap, serve and stop.
RunInv ==
    /\ pc \in {"load", "signals"} => workers = 0
    /\ pc \in {"load", "signals", "start"} => created = 0 /\ call = "none" /\ queues = {}
    /\ pc \in {"bootstrap", "serving"} => workers = cfg["shard_count"] /\ workers > 0
    /\ pc = "bootstrap" =>
          /\ created <= Len(cfg["bootstrap_queues"])
          /\ call # "none" => created < Len(cfg["bootstrap_queues"])
          /\ queues = Named(Done)
          /\ call = "error" => Queue \notin queues
    /\ pc \in {"serving", "stop", "abandon"} => call = "none"
    /\ pc \in {"serving", "stop"} => created = Len(cfg["bootstrap_queues"])
    /\ pc = "serving" => queues = Named(created)
    /\ pc = "stop" => g_shutdown
    /\ pc = "abandon" => created < Len(cfg["bootstrap_queues"]) /\ Queue \notin queues

Inv == Types /\ LoadInv /\ RunInv /\ ExitExplains

LEMMA NumberKeysIn ==
  /\ NumberKeys \subseteq Keys /\ Uint32Keys \subseteq NumberKeys
  /\ DurationKeys \subseteq NumberKeys
  /\ "data_dir" \in Keys \ NumberKeys /\ "bootstrap_queues" \in Keys \ NumberKeys
  /\ "shard_count" \in Uint32Keys /\ "(blank)" \notin Keys
BY DEF Keys, NumberKeys, Uint32Keys, Uint64Keys, DurationKeys

LEMMA FileTypes ==
  ASSUME file \in Files \cup {Missing}
  PROVE  /\ Len(file) \in Nat /\ DOMAIN file = 1 .. Len(file)
         /\ \A i \in DOMAIN file : LineOK(file[i])
<1>1. CASE file \in Files
  BY <1>1, FilesAssumption
<1>2. CASE file = Missing
  <2>1. file = <<[key |-> "(missing)"]>>
    BY <1>2 DEF Missing
  <2>2. Len(file) = 1 /\ DOMAIN file = 1 .. 1 /\ file[1] = [key |-> "(missing)"]
    BY <2>1
  <2>3. LineOK(file[1])
    BY <2>2 DEF LineOK, NumberKeys, Uint32Keys, Uint64Keys, DurationKeys
  <2> QED
    BY <2>2, <2>3
<1> QED
  BY <1>1, <1>2

\* The last line for a key, once the whole file is read.
LEMMA LastRead ==
  ASSUME Types, line = Len(file), NEW key,
         NEW i \in LinesRead(key), \A j \in LinesRead(key) : j <= i
  PROVE  LinesFor(key) = LinesRead(key) /\ LastFor(key) = file[i].value
<1>1. LinesFor(key) = LinesRead(key)
  BY DEF Types, LinesFor, LinesRead
<1>2. LinesFor(key) \in SUBSET Nat
  BY <1>1 DEF LinesRead
<1>3. \A k \in LinesFor(key) : (\A j \in LinesFor(key) : j <= k) => k = i
  BY <1>1, <1>2
<1>4. (CHOOSE k \in LinesFor(key) : \A j \in LinesFor(key) : j <= k) = i
  BY <1>1, <1>3
<1> QED
  BY <1>1, <1>4 DEF LastFor

\* The whole file is read: it is rejected for an empty data_dir alone.
LEMMA Accepted ==
  ASSUME Types, LinesTaken, line = Len(file)
  PROVE  (Rejected <=> cfg["data_dir"] = "") /\ ConfigAsWritten
<1>1. /\ line = Len(file)
      /\ \A i \in 1 .. line : ~BadLine(file[i])
      /\ \A key \in Keys :
            IF LinesRead(key) = {} THEN cfg[key] = Defaults[key]
            ELSE \E i \in LinesRead(key) :
                    (\A j \in LinesRead(key) : j <= i) /\ Value(file[i], cfg[key])
  BY DEF LinesTaken
<1>2. ASSUME NEW key \in Keys
      PROVE  IF LinesFor(key) = {} THEN cfg[key] = Defaults[key]
             ELSE Value([key |-> key, value |-> LastFor(key)], cfg[key])
  <2>1. LinesFor(key) = LinesRead(key)
    BY <1>1 DEF Types, LinesFor, LinesRead
  <2>2. CASE LinesRead(key) # {}
    <3>1. PICK i \in LinesRead(key) :
             (\A j \in LinesRead(key) : j <= i) /\ Value(file[i], cfg[key])
      BY <1>1, <2>2
    <3>2. LastFor(key) = file[i].value /\ file[i].key = key
      BY <1>1, <3>1, LastRead DEF LinesRead
    <3>3. Value([key |-> key, value |-> LastFor(key)], cfg[key])
      BY <3>1, <3>2 DEF Value
    <3> QED
      BY <2>1, <2>2, <3>3
  <2> QED
    BY <1>1, <2>1, <2>2
<1>3. Rejected <=> cfg["data_dir"] = ""
  <2>1. \A i \in DOMAIN file : ~BadLine(file[i])
    BY <1>1 DEF Types
  <2>2. LinesFor("data_dir") # {} => LastFor("data_dir") = cfg["data_dir"]
    BY <1>2, NumberKeysIn DEF Value
  <2>3. LinesFor("data_dir") = {} => cfg["data_dir"] # ""
    BY <1>2, NumberKeysIn, DefaultsAssumption
  <2> QED
    BY <2>1, <2>2, <2>3 DEF Rejected
<1>4. ConfigAsWritten
  <2>1. ASSUME NEW key \in NumberKeys
        PROVE  IF LinesFor(key) = {} THEN cfg[key] = Defaults[key]
               ELSE (~LastFor(key).neg /\ Meant(key, LastFor(key)) <= Largest(key))
                       => cfg[key] = Meant(key, LastFor(key))
    BY <1>2, NumberKeysIn DEF Value
  <2>2. ASSUME NEW key \in Keys \ NumberKeys
        PROVE  cfg[key] = IF LinesFor(key) = {} THEN Defaults[key] ELSE LastFor(key)
    BY <1>2 DEF Value
  <2> QED
    BY <2>1, <2>2 DEF ConfigAsWritten
<1> QED
  BY <1>3, <1>4

LEMMA InitInv == ASSUME Init PROVE Inv
<1>1. Types
  <2>1. /\ Len(file) \in Nat /\ DOMAIN file = 1 .. Len(file)
        /\ \A i \in DOMAIN file : LineOK(file[i])
    BY FileTypes DEF Init
  <2>2. TypeOK
    <3>1. workers \in 0 .. cfg["shard_count"]
      <4>1. workers = 0 /\ cfg = Defaults
        BY DEF Init
      <4>2. cfg["shard_count"] \in 0 .. M32 - 1
        BY <4>1, DefaultsAssumption, NumberKeysIn
      <4> QED
        BY <4>1, <4>2, ModuliAssumption
    <3> QED
      BY <3>1, DefaultsAssumption DEF Init, TypeOK, Alive
  <2>3. line <= Len(file) /\ call \in Calls
    <3>1. PICK n \in Nat : n = Len(file)
      BY <2>1
    <3>0. line = 0
      BY DEF Init
    <3>2. line <= n
      BY <3>0
    <3> QED
      BY <3>1, <3>2 DEF Init, Calls
  <2>4. cfg["bootstrap_queues"] \in Seq(DOMAIN Hash)
    BY DefaultsAssumption DEF Init
  <2> QED
    BY <2>1, <2>2, <2>3, <2>4 DEF Types
<1>2. LoadInv
  <2>1. line = 0 /\ cfg = Defaults /\ pc = "load"
    BY DEF Init
  <2>2. 1 .. line = {}
    BY <2>1
  <2> QED
    BY <2>1, <2>2 DEF LoadInv, LinesTaken, LinesRead
<1>3. RunInv /\ ExitExplains
  BY DEF Init, RunInv, ExitExplains
<1> QED
  BY <1>1, <1>2, <1>3 DEF Inv

-----------------------------------------------------------------------------
(* Reading the file.                                                       *)

\* A step that ends the process changes nothing else the invariant is about.
LEMMA ExitInv ==
  ASSUME Inv, pc' = "exit", code' \in {"0", "2", "3", "4", "5", "killed", "aborted"},
         UNCHANGED <<file, cfg, workers, queues, created, call>>,
         line' \in Nat, line' <= Len(file), g_shutdown' \in BOOLEAN, ExitExplains'
  PROVE  Inv'
<1>1. TypeOK'
  BY DEF Inv, Types, TypeOK, Alive
<1>2. Types'
  BY <1>1 DEF Inv, Types
<1>3. LoadInv' /\ RunInv'
  BY DEF LoadInv, RunInv
<1> QED
  BY <1>2, <1>3 DEF Inv

LEMMA UsageInv == ASSUME Inv, Usage \/ Unreadable PROVE Inv'
<1>1. /\ file = Missing /\ pc = "load" /\ pc' = "exit" /\ code' \in {"2", "3"}
      /\ UNCHANGED <<file, line, cfg, handled, g_shutdown, engine>>
  BY DEF Usage, Unreadable, Exit
<1>2. workers = 0
  BY <1>1 DEF Inv, RunInv
<1>3. ExitExplains'
  BY <1>1, <1>2 DEF ExitExplains, engine
<1>4. line \in Nat /\ line <= Len(file) /\ g_shutdown \in BOOLEAN
  BY DEF Inv, Types, TypeOK
<1> QED
  BY <1>1, <1>3, <1>4, ExitInv DEF engine

\* A line that is accepted becomes the last one for its key.
LEMMA LineRead ==
  ASSUME Inv, LoadLine, NEW l, l = file[line + 1], pc' = "load",
         \/ l.key = "(blank)" /\ cfg' = cfg
         \/ /\ l.key \in Keys /\ ~BadLine(l)
            /\ \E v : Value(l, v) /\ cfg' = [cfg EXCEPT ![l.key] = v]
  PROVE  LoadInv'
<1>1. /\ pc = "load" /\ line < Len(file) /\ line' = line + 1 /\ file' = file
      /\ line \in Nat /\ DOMAIN cfg = Keys
  BY DEF LoadLine, Inv, Types, TypeOK
<1>2. /\ \A i \in 1 .. line : ~BadLine(file[i])
      /\ \A key \in Keys :
            IF LinesRead(key) = {} THEN cfg[key] = Defaults[key]
            ELSE \E i \in LinesRead(key) :
                    (\A j \in LinesRead(key) : j <= i) /\ Value(file[i], cfg[key])
  BY <1>1 DEF Inv, LoadInv, LinesTaken
<1>3. ~BadLine(l)
  BY DEF BadLine
<1>4. \A i \in 1 .. line' : ~BadLine(file[i])
  BY <1>1, <1>2, <1>3
<1>5. \A key : /\ key = l.key => LinesRead(key)' = LinesRead(key) \cup {line + 1}
               /\ key # l.key => LinesRead(key)' = LinesRead(key)
  BY <1>1 DEF LinesRead
<1>6. ASSUME NEW key \in Keys
      PROVE  IF LinesRead(key)' = {} THEN cfg'[key] = Defaults[key]
             ELSE \E i \in LinesRead(key)' :
                     (\A j \in LinesRead(key)' : j <= i) /\ Value(file[i], cfg'[key])
  <2>1. CASE key # l.key
    <3>1. LinesRead(key)' = LinesRead(key) /\ cfg'[key] = cfg[key]
      BY <1>1, <1>5, <2>1
    <3> QED
      BY <1>2, <3>1
  <2>2. CASE key = l.key
    <3>1. PICK v : Value(l, v) /\ cfg' = [cfg EXCEPT ![l.key] = v]
      BY <2>2, NumberKeysIn
    <3>2. cfg'[key] = v
      BY <1>1, <2>2, <3>1
    <3>3. LinesRead(key)' = LinesRead(key) \cup {line + 1}
      BY <1>5, <2>2
    <3>4. \A j \in LinesRead(key)' : j <= line + 1
      BY <1>1, <3>3 DEF LinesRead
    <3> QED
      BY <3>1, <3>2, <3>3, <3>4
  <2> QED
    BY <2>1, <2>2
<1> QED
  BY <1>1, <1>4, <1>6 DEF LoadInv, LinesTaken

LEMMA LoadLineInv == ASSUME Inv, LoadLine PROVE Inv'
<1> DEFINE l == file[line + 1]
<1>1. /\ pc = "load" /\ code = "" /\ line < Len(file) /\ line' = line + 1
      /\ UNCHANGED <<file, handled, g_shutdown, engine>>
  BY DEF LoadLine, Alive
<1>n. PICK n \in Nat : n = Len(file) /\ DOMAIN file = 1 .. n
  BY DEF Inv, Types
<1>m. line \in Nat /\ line < n
  BY <1>1, <1>n DEF Inv, Types, TypeOK
<1>2. line + 1 \in DOMAIN file /\ LineOK(l) /\ line \in Nat
  <2>1. line + 1 \in 1 .. n
    BY <1>m
  <2> QED
    BY <1>n, <1>m, <2>1 DEF Inv, Types
<1>3. workers = 0 /\ created = 0 /\ call = "none" /\ queues = {}
  BY <1>1 DEF Inv, RunInv
<1>4. line' \in Nat /\ line' <= Len(file)
  <2>0. line' = line + 1
    BY <1>1
  <2>1. line' \in Nat /\ line' <= n
    BY <1>m, <2>0
  <2> QED
    BY <1>n, <1>m, <2>1
<1>5. CASE l.key # "(blank)" /\ Parsed(l) = Error
  <2>1. pc' = "exit" /\ code' = "3" /\ cfg' = cfg
    BY <1>5 DEF LoadLine, Exit
  <2>2. BadLine(l)
    <3>1. SUFFICES ASSUME ~BadLine(l) PROVE FALSE
      OBVIOUS
    <3>2. \E v : Parsed(l) = <<v>>
      BY <1>2, <1>5, <3>1, ParsedValue
    <3> QED
      BY <1>5, <3>2 DEF Error
  <2>3. Rejected'
    BY <1>1, <1>2, <2>2 DEF Rejected, BadLine
  <2>4. ExitExplains'
    BY <1>1, <1>3, <2>1, <2>3 DEF ExitExplains, engine
  <2>5. g_shutdown' \in BOOLEAN
    BY <1>1 DEF Inv, Types, TypeOK
  <2> QED
    BY <1>1, <1>4, <2>1, <2>4, <2>5, ExitInv DEF engine
<1>6. ASSUME pc' = "load", code' = "", DOMAIN cfg' = Keys, LoadInv',
             \A k \in Uint32Keys : cfg'[k] \in 0 .. M32 - 1,
             \A k \in DurationKeys : cfg'[k] \in -M64 .. M64 - 1,
             cfg'["bootstrap_queues"] \in Seq(DOMAIN Hash)
      PROVE  Inv'
  <2>1. workers' \in 0 .. cfg'["shard_count"]
    <3>1. cfg'["shard_count"] \in 0 .. M32 - 1 /\ workers' = 0
      BY <1>1, <1>3, <1>6, NumberKeysIn DEF engine
    <3> QED
      BY <3>1, ModuliAssumption
  <2>2. TypeOK'
    BY <1>1, <1>4, <1>6, <2>1 DEF Inv, Types, TypeOK, Alive, engine
  <2>3. Types'
    BY <1>1, <1>4, <1>6, <2>2 DEF Inv, Types, engine
  <2>4. RunInv'
    BY <1>1, <1>3, <1>6 DEF RunInv, engine
  <2>5. ExitExplains'
    BY <1>6 DEF ExitExplains
  <2> QED
    BY <1>6, <2>3, <2>4, <2>5 DEF Inv
<1>7. CASE l.key = "(blank)"
  <2>1. cfg' = cfg /\ pc' = pc /\ code' = code
    BY <1>7 DEF LoadLine
  <2>2. LoadInv'
    BY <1>1, <1>7, <2>1, LineRead
  <2> QED
    BY <1>1, <1>6, <2>1, <2>2 DEF Inv, Types, TypeOK
<1>8. CASE l.key # "(blank)" /\ Parsed(l) # Error
  <2>1. cfg' = [cfg EXCEPT ![l.key] = Parsed(l)[1]] /\ pc' = pc /\ code' = code
    BY <1>8 DEF LoadLine
  <2>2. ~BadLine(l)
    BY <1>2, <1>8, ParsedValue
  <2>3. l.key \in Keys /\ \E v : Parsed(l) = <<v>> /\ Value(l, v)
    BY <1>2, <1>8, <2>2, ParsedValue
  <2>4. PICK v : Parsed(l) = <<v>> /\ Value(l, v)
    BY <2>3
  <2>5. cfg' = [cfg EXCEPT ![l.key] = v]
    BY <2>1, <2>4
  <2>6. LoadInv'
    BY <1>1, <2>1, <2>2, <2>3, <2>4, <2>5, LineRead
  <2>7. /\ DOMAIN cfg = Keys /\ \A k \in Uint32Keys : cfg[k] \in 0 .. M32 - 1
        /\ \A k \in DurationKeys : cfg[k] \in -M64 .. M64 - 1
        /\ cfg["bootstrap_queues"] \in Seq(DOMAIN Hash)
    BY DEF Inv, Types, TypeOK
  <2>8. \A k \in Keys : cfg'[k] = IF k = l.key THEN v ELSE cfg[k]
    BY <2>5, <2>7
  <2>9. \A k \in Uint32Keys : cfg'[k] \in 0 .. M32 - 1
    BY <2>4, <2>7, <2>8, NumberKeysIn DEF Value, Field
  <2>10. \A k \in DurationKeys : cfg'[k] \in -M64 .. M64 - 1
    <3>1. ASSUME NEW k \in DurationKeys PROVE Field(k) = -M64 .. M64 - 1
      BY DEF Field, DurationKeys, Uint32Keys, Uint64Keys
    <3> QED
      BY <2>4, <2>7, <2>8, <3>1, NumberKeysIn DEF Value
  <2>11. cfg'["bootstrap_queues"] \in Seq(DOMAIN Hash)
    BY <1>2, <2>4, <2>7, <2>8, NumberKeysIn DEF Value, LineOK
  <2>12. DOMAIN cfg' = Keys
    BY <2>5, <2>7
  <2> QED
    BY <1>1, <1>6, <2>1, <2>6, <2>9, <2>10, <2>11, <2>12
<1> QED
  BY <1>5, <1>7, <1>8

LEMMA LoadEndInv == ASSUME Inv, LoadEnd PROVE Inv'
<1>1. /\ pc = "load" /\ code = "" /\ file # Missing /\ line = Len(file)
      /\ UNCHANGED <<file, line, cfg, handled, g_shutdown, engine>>
  BY DEF LoadEnd, Alive
<1>2. Types /\ LinesTaken
  BY <1>1 DEF Inv, LoadInv
<1>3. Rejected <=> cfg["data_dir"] = ""
  BY <1>1, <1>2, Accepted
<1>4. Rejected' <=> Rejected
  BY <1>1 DEF Rejected, LinesFor, LastFor
<1>5. workers = 0 /\ created = 0 /\ call = "none" /\ queues = {}
  BY <1>1 DEF Inv, RunInv
<1>6. CASE cfg["data_dir"] = ""
  <2>1. pc' = "exit" /\ code' = "3"
    BY <1>6 DEF LoadEnd, Exit
  <2>2. ExitExplains'
    BY <1>1, <1>3, <1>4, <1>5, <1>6, <2>1 DEF ExitExplains, engine
  <2>3. line' \in Nat /\ line' <= Len(file) /\ g_shutdown' \in BOOLEAN
    BY <1>1, <1>2 DEF Types, TypeOK
  <2> QED
    BY <1>1, <2>1, <2>2, <2>3, ExitInv DEF engine
<1>7. CASE cfg["data_dir"] # ""
  <2>1. pc' = "signals" /\ code' = code
    BY <1>7 DEF LoadEnd
  <2>2. TypeOK'
    BY <1>1, <1>2, <2>1 DEF Types, TypeOK, Alive, engine
  <2>3. Types'
    BY <1>1, <1>2, <2>2 DEF Types, engine
  <2>4. LinesTaken'
    BY <1>1, <1>2 DEF LinesTaken, LinesRead
  <2>5. LoadInv'
    BY <1>1, <1>7, <2>1, <2>4 DEF LoadInv
  <2>6. RunInv'
    BY <1>1, <1>5, <2>1 DEF RunInv, engine
  <2>7. ExitExplains'
    BY <1>1, <1>3, <1>4, <1>7, <2>1 DEF ExitExplains
  <2> QED
    BY <2>3, <2>5, <2>6, <2>7 DEF Inv
<1> QED
  BY <1>6, <1>7

-----------------------------------------------------------------------------
(* Start, bootstrap, serve and stop.                                       *)

\* The file was not rejected: the same for every step after it is read.
LEMMA GoodFile ==
  ASSUME Inv, pc \notin {"load", "exit"}, file' = file
  PROVE  ~Rejected /\ ~Rejected'
<1>1. ~Rejected
  BY DEF Inv, ExitExplains
<1>2. Rejected' <=> Rejected
  BY DEF Rejected, LinesFor, LastFor
<1> QED
  BY <1>1, <1>2

\* A step of a server that goes on.
LEMMA GoesOn ==
  ASSUME Inv, pc \notin {"load", "exit"},
         pc' \in {"signals", "start", "bootstrap", "serving", "stop", "abandon"},
         UNCHANGED <<file, line, cfg, code>>, g_shutdown' \in BOOLEAN,
         workers' \in 0 .. cfg["shard_count"], created' \in Nat, call' \in Calls, RunInv'
  PROVE  Inv'
<1>1. code = ""
  BY DEF Inv, Types, TypeOK, Alive
<1>2. TypeOK'
  BY <1>1 DEF Inv, Types, TypeOK, Alive
<1>3. Types'
  BY <1>2 DEF Inv, Types
<1>4. LinesTaken'
  BY DEF Inv, LoadInv, LinesTaken, LinesRead
<1>5. LoadInv'
  BY <1>4 DEF Inv, LoadInv
<1>6. ExitExplains'
  BY <1>1, GoodFile DEF ExitExplains
<1> QED
  BY <1>3, <1>5, <1>6 DEF Inv

\* A step of a server that has read its file, to its end.
LEMMA Ends ==
  ASSUME Inv, pc \notin {"load", "exit"}, pc' = "exit", code' \in {"0", "4", "5", "aborted"},
         UNCHANGED <<file, line, cfg, g_shutdown, workers, queues, created, call>>,
         code' # "aborted" => workers = 0,
         code' = "0" => g_shutdown /\ created = Len(cfg["bootstrap_queues"]),
         code' = "5" => created < Len(cfg["bootstrap_queues"]) /\ Queue \notin queues
  PROVE  Inv'
<1>1. ExitExplains'
  BY GoodFile DEF ExitExplains, Queue
<1>2. line \in Nat /\ line <= Len(file) /\ g_shutdown \in BOOLEAN
  BY DEF Inv, Types, TypeOK
<1> QED
  BY <1>1, <1>2, ExitInv

LEMMA RunTypes ==
  ASSUME Inv
  PROVE  /\ cfg["shard_count"] \in Nat /\ workers \in 0 .. cfg["shard_count"]
         /\ created \in Nat /\ call \in Calls /\ g_shutdown \in BOOLEAN
         /\ cfg["bootstrap_queues"] \in Seq(DOMAIN Hash)
         /\ Len(cfg["bootstrap_queues"]) \in Nat
         /\ DOMAIN cfg["bootstrap_queues"] = 1 .. Len(cfg["bootstrap_queues"])
<1>1. cfg["shard_count"] \in 0 .. M32 - 1
  BY NumberKeysIn DEF Inv, Types, TypeOK
<1>2. cfg["bootstrap_queues"] \in Seq(DOMAIN Hash)
  BY DEF Inv, Types
<1>3. /\ Len(cfg["bootstrap_queues"]) \in Nat
      /\ DOMAIN cfg["bootstrap_queues"] = 1 .. Len(cfg["bootstrap_queues"])
  BY <1>2, LenProperties
<1>4. cfg["shard_count"] \in Nat
  BY <1>1, ModuliAssumption
<1>5. /\ workers \in 0 .. cfg["shard_count"] /\ created \in Nat /\ call \in Calls
      /\ g_shutdown \in BOOLEAN
  BY DEF Inv, Types, TypeOK
<1> QED
  BY <1>2, <1>3, <1>4, <1>5

LEMMA InstallHandlerInv == ASSUME Inv, InstallHandler PROVE Inv'
<1>1. /\ pc = "signals" /\ pc' \in {"signals", "start"}
      /\ UNCHANGED <<file, line, cfg, g_shutdown, engine, code>>
  BY DEF InstallHandler
<1>2. RunInv'
  BY <1>1 DEF Inv, RunInv, engine
<1> QED
  BY <1>1, <1>2, RunTypes, GoesOn DEF engine

LEMMA StartShardInv == ASSUME Inv, StartShard PROVE Inv'
<1>1. /\ pc = "start" /\ UNCHANGED <<file, line, cfg, handled, g_shutdown, queues, created, call>>
      /\ created = 0 /\ call = "none" /\ queues = {}
  BY DEF StartShard, Inv, RunInv
<1>2. PICK c \in Nat : c = cfg["shard_count"]
  BY RunTypes
<1>3. workers \in 0 .. c
  BY <1>2, RunTypes
<1>4. CASE c = 0
  <2>1. pc' = "exit" /\ code' = "4" /\ UNCHANGED workers
    BY <1>2, <1>4 DEF StartShard, Exit
  <2>2. workers = 0
    BY <1>3, <1>4
  <2> QED
    BY <1>1, <2>1, <2>2, Ends
<1>5. CASE c # 0 /\ workers = c
  <2>1. pc' = "bootstrap" /\ UNCHANGED <<workers, code>>
    BY <1>2, <1>5 DEF StartShard
  <2>2. Done' = 0 /\ Named(0)' = {}
    BY <1>1 DEF Done, Named
  <2>3. 0 <= Len(cfg["bootstrap_queues"]) /\ workers > 0
    BY <1>3, <1>5, RunTypes
  <2>4. RunInv'
    BY <1>1, <1>2, <1>5, <2>1, <2>2, <2>3 DEF RunInv, Named
  <2> QED
    BY <1>1, <2>1, <2>4, RunTypes, GoesOn
<1>6. CASE c # 0 /\ workers # c /\ workers = MaxThreads
  <2>1. pc' = "exit" /\ code' = "aborted" /\ UNCHANGED workers
    BY <1>2, <1>6 DEF StartShard, Exit
  <2> QED
    BY <1>1, <2>1, Ends
<1>7. CASE c # 0 /\ workers # c /\ workers # MaxThreads
  <2>1. workers' = workers + 1 /\ UNCHANGED <<pc, code>>
    BY <1>2, <1>7 DEF StartShard
  <2>2. workers' \in 0 .. cfg["shard_count"]
    BY <1>2, <1>3, <1>7, <2>1
  <2>3. RunInv'
    BY <1>1, <2>1 DEF RunInv
  <2> QED
    BY <1>1, <2>1, <2>2, <2>3, RunTypes, GoesOn
<1> QED
  BY <1>4, <1>5, <1>6, <1>7

LEMMA SubmitCreateInv == ASSUME Inv, SubmitCreate PROVE Inv'
<1>1. /\ pc = "bootstrap" /\ call = "none" /\ call' = "submitted"
      /\ created < Len(cfg["bootstrap_queues"])
      /\ UNCHANGED <<file, line, cfg, pc, handled, g_shutdown, workers, queues, created, code>>
  BY DEF SubmitCreate
<1>2. Done' = Done
  BY <1>1, RunTypes DEF Done
<1>3. Named(Done)' = Named(Done)
  BY <1>1, <1>2 DEF Named
<1>4. RunInv'
  BY <1>1, <1>3 DEF Inv, RunInv
<1>5. call' \in Calls
  BY <1>1 DEF Calls
<1> QED
  BY <1>1, <1>4, <1>5, RunTypes, GoesOn

LEMMA CreateQueueInv == ASSUME Inv, CreateQueueOnShard PROVE Inv'
<1>1. /\ call = "submitted" /\ code = ""
      /\ UNCHANGED <<file, line, cfg, handled, g_shutdown, workers, created>>
  BY DEF CreateQueueOnShard, Alive
<1>2. pc = "bootstrap"
  BY <1>1 DEF Inv, RunInv, Types, TypeOK, Alive
<1>3. /\ created < Len(cfg["bootstrap_queues"]) /\ created \in Nat
      /\ created <= Len(cfg["bootstrap_queues"])
  BY <1>1, <1>2, RunTypes DEF Inv, RunInv
<1>4. Done = created /\ queues = Named(created)
  <2>1. Done = created + 0
    BY <1>1 DEF Done
  <2> QED
    BY <1>2, <1>3, <2>1 DEF Inv, RunInv
<1>5. Named(created + 1) = Named(created) \cup {Queue}
  BY <1>3 DEF Named, Queue
<1>6. workers = cfg["shard_count"] /\ workers > 0
  BY <1>2 DEF Inv, RunInv
<1>7. ASSUME UNCHANGED <<pc, code>>, call' \in {"ok", "exists"}, queues' = Named(created + 1)
      PROVE  Inv'
  <2>1. Done' = created + 1
    BY <1>1, <1>7 DEF Done
  <2>2. Named(Done)' = Named(created + 1)
    BY <1>1, <2>1 DEF Named
  <2>3. RunInv'
    BY <1>1, <1>2, <1>3, <1>6, <1>7, <2>2 DEF RunInv
  <2>4. call' \in Calls
    BY <1>7 DEF Calls
  <2> QED
    BY <1>1, <1>2, <1>7, <2>3, <2>4, RunTypes, GoesOn
<1>8. CASE Queue \in queues /\ call' = "exists" /\ UNCHANGED <<pc, queues, code>>
  BY <1>4, <1>5, <1>7, <1>8
<1>9. CASE Queue \notin queues /\ call' = "ok" /\ queues' = queues \cup {Queue} /\ UNCHANGED <<pc, code>>
  BY <1>4, <1>5, <1>7, <1>9
<1>10. CASE Queue \notin queues /\ call' = "error" /\ UNCHANGED <<pc, queues, code>>
  <2>0. Done' = created + 0
    BY <1>1, <1>10 DEF Done
  <2>1. Done' = created
    BY <1>3, <2>0
  <2>2. Named(Done)' = Named(created)
    BY <1>1, <2>1 DEF Named
  <2>3. Queue' = Queue
    BY <1>1 DEF Queue
  <2>4. RunInv'
    BY <1>1, <1>2, <1>3, <1>4, <1>6, <1>10, <2>2, <2>3 DEF RunInv
  <2>5. call' \in Calls
    BY <1>10 DEF Calls
  <2> QED
    BY <1>1, <1>2, <1>10, <2>4, <2>5, RunTypes, GoesOn
<1>11. CASE pc' = "exit" /\ code' = "aborted" /\ UNCHANGED <<call, queues>>
  BY <1>1, <1>2, <1>11, Ends
<1> QED
  BY <1>8, <1>9, <1>10, <1>11 DEF CreateQueueOnShard, Exit

LEMMA CreatedInv == ASSUME Inv, Created PROVE Inv'
<1>1. /\ pc = "bootstrap" /\ call \notin {"none", "submitted"} /\ call' = "none"
      /\ UNCHANGED <<file, line, cfg, handled, g_shutdown, workers, queues, code>>
  BY DEF Created
<1>2. /\ created < Len(cfg["bootstrap_queues"]) /\ created \in Nat
      /\ Len(cfg["bootstrap_queues"]) \in Nat /\ call \in {"ok", "exists", "error"}
  BY <1>1, RunTypes DEF Inv, RunInv, Calls
<1>3. call' \in Calls
  BY <1>1 DEF Calls
<1>4. CASE call \in {"ok", "exists"}
  <2>1. created' = created + 1 /\ pc' = pc
    BY <1>4 DEF Created, Tolerated
  <2>2. Done = created + 1 /\ Done' = created' + 0
    BY <1>1, <1>4 DEF Done
  <2>3. Named(Done)' = Named(Done)
    BY <1>1, <1>2, <2>1, <2>2 DEF Named
  <2>4. created' <= Len(cfg["bootstrap_queues"]) /\ created' \in Nat
    BY <1>2, <2>1
  <2>5. RunInv'
    BY <1>1, <2>1, <2>3, <2>4 DEF Inv, RunInv
  <2> QED
    BY <1>1, <1>3, <2>1, <2>4, <2>5, RunTypes, GoesOn
<1>5. CASE call = "error"
  <2>1. pc' = "abandon" /\ created' = created
    BY <1>5 DEF Created, Tolerated
  <2>2. Queue \notin queues /\ Queue' = Queue
    BY <1>1, <1>5, <2>1 DEF Inv, RunInv, Queue
  <2>3. RunInv'
    BY <1>1, <1>2, <2>1, <2>2 DEF RunInv
  <2> QED
    BY <1>1, <1>3, <2>1, <2>3, RunTypes, GoesOn
<1> QED
  BY <1>2, <1>4, <1>5

LEMMA ServeInv == ASSUME Inv, Serve \/ Poll PROVE Inv'
<1>1. UNCHANGED <<file, line, cfg, handled, g_shutdown, engine, code>>
  BY DEF Serve, Poll
<1>2. CASE Serve
  <2>1. /\ pc = "bootstrap" /\ pc' = "serving" /\ call = "none"
        /\ created = Len(cfg["bootstrap_queues"])
    BY <1>2 DEF Serve
  <2>2. Done = created
    <3>1. Done = created + 0
      BY <2>1 DEF Done
    <3> QED
      BY <3>1, RunTypes
  <2>3. queues = Named(created) /\ Named(created)' = Named(created)
    BY <1>1, <2>1, <2>2 DEF Inv, RunInv, Named, engine
  <2>4. RunInv'
    BY <1>1, <2>1, <2>3 DEF Inv, RunInv, engine
  <2> QED
    BY <1>1, <2>1, <2>4, RunTypes, GoesOn DEF engine
<1>3. CASE Poll
  <2>1. pc = "serving" /\ pc' = "stop" /\ g_shutdown
    BY <1>3 DEF Poll
  <2>2. RunInv'
    BY <1>1, <2>1 DEF Inv, RunInv, engine
  <2> QED
    BY <1>1, <2>1, <2>2, RunTypes, GoesOn DEF engine
<1> QED
  BY <1>2, <1>3

LEMMA StopShardInv == ASSUME Inv, StopShard PROVE Inv'
<1>1. /\ pc \in {"stop", "abandon"}
      /\ UNCHANGED <<file, line, cfg, handled, g_shutdown, queues, created, call>>
  BY DEF StopShard
<1>2. PICK c \in Nat : c = cfg["shard_count"] /\ workers \in 0 .. c
  BY RunTypes
<1>3. CASE workers = 0
  <2>1. pc' = "exit" /\ code' = (IF pc = "stop" THEN "0" ELSE "5") /\ UNCHANGED workers
    BY <1>3 DEF StopShard, Exit
  <2>2. /\ pc = "stop" => g_shutdown /\ created = Len(cfg["bootstrap_queues"])
        /\ pc = "abandon" => created < Len(cfg["bootstrap_queues"]) /\ Queue \notin queues
    BY DEF Inv, RunInv
  <2> QED
    BY <1>1, <1>3, <2>1, <2>2, Ends
<1>4. CASE workers # 0
  <2>1. workers' = workers - 1 /\ UNCHANGED <<pc, code>>
    BY <1>4 DEF StopShard
  <2>2. workers' \in 0 .. cfg["shard_count"]
    BY <1>2, <1>4, <2>1
  <2>3. Queue' = Queue
    BY <1>1 DEF Queue
  <2>4. RunInv'
    BY <1>1, <2>1, <2>3 DEF Inv, RunInv
  <2> QED
    BY <1>1, <2>1, <2>2, <2>4, RunTypes, GoesOn
<1> QED
  BY <1>3, <1>4

\* A signal sets the flag or kills the process, wherever it comes.
LEMMA SignalInv == ASSUME Inv, NEW s, Signal(s) PROVE Inv'
<1>1. code = "" /\ UNCHANGED <<file, line, cfg, handled, engine>>
  BY DEF Signal, Alive
<1>2. CASE pc' = "exit" /\ code' = "killed" /\ g_shutdown' = g_shutdown
  <2>1. ExitExplains'
    BY <1>2 DEF ExitExplains
  <2>2. line \in Nat /\ line <= Len(file) /\ g_shutdown \in BOOLEAN
    BY DEF Inv, Types, TypeOK
  <2> QED
    BY <1>1, <1>2, <2>1, <2>2, ExitInv DEF engine
<1>3. CASE g_shutdown' = TRUE /\ UNCHANGED <<pc, code>>
  <2>1. pc # "exit"
    BY <1>1 DEF Inv, Types, TypeOK, Alive
  <2>2. TypeOK'
    BY <1>1, <1>3 DEF Inv, Types, TypeOK, Alive, engine
  <2>3. Types'
    BY <1>1, <1>3, <2>2 DEF Inv, Types, engine
  <2>4. LinesTaken'
    BY <1>1, <2>1 DEF Inv, LoadInv, LinesTaken, LinesRead
  <2>5. LoadInv'
    BY <1>1, <1>3, <2>1, <2>4 DEF Inv, LoadInv
  <2>6. Named(Done)' = Named(Done) /\ Named(created)' = Named(created) /\ Queue' = Queue
    BY <1>1 DEF Named, Done, Queue, engine
  <2>7. RunInv'
    BY <1>1, <1>3, <2>6 DEF Inv, RunInv, engine
  <2>8. pc \notin {"load", "exit"} => ~Rejected'
    BY <1>1, GoodFile
  <2>9. ExitExplains'
    BY <1>1, <1>3, <2>8, <2>1 DEF ExitExplains
  <2> QED
    BY <2>3, <2>5, <2>7, <2>9 DEF Inv
<1> QED
  BY <1>2, <1>3 DEF Signal, Exit

LEMMA NextInv == ASSUME Inv, [Next]_vars PROVE Inv'
<1>1. CASE UNCHANGED vars
  <2>0. UNCHANGED <<file, line, cfg, pc, handled, g_shutdown, workers, queues, created, call, code>>
    BY <1>1 DEF vars
  <2>1. TypeOK'
    BY <2>0 DEF Inv, Types, TypeOK, Alive
  <2>2. Types'
    BY <2>0, <2>1 DEF Inv, Types
  <2>3. LoadInv'
    BY <2>0 DEF Inv, LoadInv, LinesTaken, LinesRead
  <2>4. Named(Done)' = Named(Done) /\ Named(created)' = Named(created) /\ Queue' = Queue
    BY <2>0 DEF Named, Done, Queue
  <2>5. RunInv'
    BY <2>0, <2>4 DEF Inv, RunInv
  <2>6. Rejected' <=> Rejected
    BY <2>0 DEF Rejected, LinesFor, LastFor
  <2>7. ExitExplains'
    BY <2>0, <2>4, <2>6 DEF Inv, ExitExplains
  <2> QED
    BY <2>2, <2>3, <2>5, <2>7 DEF Inv
<1>2. CASE Main
  BY <1>2, UsageInv, LoadLineInv, LoadEndInv, InstallHandlerInv, StartShardInv,
     SubmitCreateInv, CreatedInv, ServeInv, StopShardInv DEF Main
<1>3. CASE CreateQueueOnShard \/ \E s \in {"SIGINT", "SIGTERM"} : Signal(s)
  BY <1>3, CreateQueueInv, SignalInv
<1> QED
  BY <1>1, <1>2, <1>3 DEF Next

LEMMA InvHolds == Spec => []Inv
BY InitInv, NextInv, PTL DEF Spec

-----------------------------------------------------------------------------
(* The theorems.                                                           *)

\* Every field of the configuration holds a value of its width at every
\* moment, and no more workers run than it asks for.
THEOREM TypeCorrect == Spec => []TypeOK
<1>1. Inv => TypeOK
  BY DEF Inv, Types
<1> QED
  BY <1>1, InvHolds, PTL

\* LoadServerConfig: the settings the server runs with are what the last
\* line for each means, for every file.
THEOREM ConfigIsAsWritten == Spec => []ConfigAsWritten
<1>1. Inv => ConfigAsWritten
  <2>1. SUFFICES ASSUME Inv, pc \notin {"load", "exit"} PROVE ConfigAsWritten
    BY DEF ConfigAsWritten
  <2>2. Types /\ LinesTaken /\ line = Len(file)
    BY <2>1 DEF Inv, LoadInv
  <2> QED
    BY <2>2, Accepted
<1> QED
  BY <1>1, InvHolds, PTL

\* main's exit codes say why the server ended, however signals, failures of
\* the bootstrap and the start of the shards fall together.
THEOREM ExitIsExplained == Spec => []ExitExplains
BY InvHolds, PTL DEF Inv

\* The server serves only with all its shards and all its queues.
THEOREM ServingIsComplete == Spec => []ServesComplete
<1>1. Inv => ServesComplete
  <2>1. SUFFICES ASSUME Inv, pc = "serving" PROVE ServesComplete
    BY DEF ServesComplete
  <2>2. /\ workers = cfg["shard_count"] /\ workers > 0
        /\ created = Len(cfg["bootstrap_queues"]) /\ queues = Named(created)
    BY <2>1 DEF Inv, RunInv
  <2>3. DOMAIN cfg["bootstrap_queues"] = 1 .. created
    BY <2>1, <2>2, RunTypes
  <2> QED
    BY <2>2, <2>3 DEF ServesComplete, Named
<1> QED
  BY <1>1, InvHolds, PTL
=============================================================================
