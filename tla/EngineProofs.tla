---------------------------- MODULE EngineProofs ----------------------------
(* The invariant of the engine, for any threads, engines and strings.  It   *)
(* has three parts that no action mixes: the errors and answers of the      *)
(* threads, the engines with their blocks, the strings.                     *)
EXTENDS Engine, TLAPS

Reports ==
    /\ last_error \in [Thread -> Message \cup {Null}]
    /\ answer \in [Thread -> Result]
    /\ ErrorIsOwn
    /\ \A t \in Thread : last_error[t] /= "Engine not initialized"
Engines ==
    /\ live \subseteq Handle
    /\ engine \in [Handle -> EngineState]
    /\ heap \subseteq [kind : {"engine"} \cup List, of : Handle]
    /\ HeapIsOwned
    /\ \A h \in live : engine[h].initialized
Strings ==
    /\ strings \subseteq Str
    /\ held \in [Thread -> SUBSET Str]
    /\ StringsAreHeld

LEMMA Parts == IInv <=> Reports /\ Engines /\ Strings
  BY DEF IInv, TypeOK, Reports, Engines, Strings, LiveIsInitialized

LEMMA InitIInv == Init => IInv
<1> SUFFICES ASSUME Init PROVE Reports /\ Engines /\ Strings
  BY Parts
<1> USE EngineAssumption DEF Init
<1>1. Reports
  BY DEF Reports, ErrorIsOwn, Explains, Result, Message
<1>2. Engines
  BY DEF Engines, HeapIsOwned, EngineState, Fresh, Empty, ResultType
<1>3. Strings
  BY DEF Strings, StringsAreHeld
<1>. QED  BY <1>1, <1>2, <1>3

\* A call that reports leaves a message that explains its answer.
LEMMA ReportKeeps ==
    ASSUME Reports, NEW t \in Thread, NEW m \in Message \cup {Null}, NEW v \in Result,
           SetError(t, m), Answer(t, v), Explains(m, v), m /= "Engine not initialized"
    PROVE  Reports'
  BY DEF Reports, SetError, Answer, ErrorIsOwn

LEMMA SuccessKeeps ==
    ASSUME Reports, NEW t \in Thread, ClearError(t), Answer(t, "ok")
    PROVE  Reports'
<1>1. Explains(Null, "ok") /\ Null /= "Engine not initialized" /\ "ok" \in Result
  BY EngineAssumption DEF Explains, Message, Result
<1>. QED  BY <1>1, ReportKeeps DEF ClearError

LEMMA FailureKeeps ==
    ASSUME Reports, NEW t \in Thread, SetError(t, "Allocation failed"), Answer(t, "out_of_memory")
    PROVE  Reports'
<1>1. Explains("Allocation failed", "out_of_memory")
  BY EngineAssumption DEF Explains, Message
<1>2. "Allocation failed" \in Message /\ "out_of_memory" \in Result
  BY DEF Message, Result
<1>. QED  BY <1>1, <1>2, ReportKeeps

\* A refusal of a live or null handle; it is never for want of init.
LEMMA RefuseKeeps ==
    ASSUME Reports, NEW t \in Thread,
           NEW m \in {"Null engine handle", "Null argument", "No generated content available"},
           Refuse(t, m)
    PROVE  Reports'
<1>1. Code(m) = "null_pointer" /\ m \in Message /\ "null_pointer" \in Result
  BY DEF Code, Message, Result
<1>2. Explains(m, "null_pointer")
  BY EngineAssumption DEF Explains, Message
<1>. QED  BY <1>1, <1>2, ReportKeeps DEF Refuse

LEMMA RefusalIs ==
    ASSUME Engines, NEW h \in live \cup {Null}, NEW ready, NEW args
    PROVE  /\ Refusal(h, ready, args) \in {"Null engine handle", "Null argument", Null}
           /\ Refusal(h, ready, args) = Null => h \in live
<1>1. CASE h = Null
  BY <1>1, EngineAssumption DEF Refusal, Message
<1>2. CASE h \in live
  <2>1. h /= Null /\ engine[h].initialized
    BY <1>2, EngineAssumption DEF Engines
  <2>. QED  BY <1>2, <2>1 DEF Refusal
<1>. QED  BY <1>1, <1>2

\* Everything a refusal and a failure leave alone.
LEMMA QuietKeeps ==
    ASSUME Engines, Strings
    PROVE  /\ UNCHANGED <<live, engine, heap>> => Engines'
           /\ UNCHANGED <<strings, held>> => Strings'
  BY DEF Engines, HeapIsOwned, Strings, StringsAreHeld

LEMMA InitKeepsEngines ==
    ASSUME Engines, NEW t \in Thread, InitSucceeds(t)
    PROVE  Engines'
<1>1. PICK h \in Handle \ live :
        /\ live' = live \cup {h}
        /\ engine' = [engine EXCEPT ![h] = Fresh]
        /\ heap' = heap \cup {Block("engine", h)}
  BY DEF InitSucceeds
<1>2. Fresh \in EngineState /\ Fresh.initialized /\ \A l \in List : Fresh[l] = 0
  BY EngineAssumption DEF Fresh, Empty, EngineState, ResultType, List
<1>3. \A l \in List : Block(l, h) \notin heap'
  <2>1. \A b \in heap : b.of /= h
    BY <1>1 DEF Engines, HeapIsOwned
  <2>. QED  BY <1>1, <2>1 DEF Block, List
<1>4. HeapIsOwned'
  <2>1. \A b \in heap' : b.of \in live'
    BY <1>1 DEF Engines, HeapIsOwned, Block
  <2>2. ASSUME NEW g \in live'
        PROVE  /\ Block("engine", g) \in heap'
               /\ \A l \in List : Block(l, g) \in heap' <=> engine'[g][l] > 0
    <3>1. CASE g = h
      BY <1>1, <1>2, <1>3, <3>1 DEF Engines
    <3>2. CASE g /= h
      <4>1. g \in live /\ engine'[g] = engine[g] /\ g \in Handle
        BY <1>1, <3>2 DEF Engines
      <4>2. \A l \in List : Block(l, g) \in heap' <=> Block(l, g) \in heap
        BY <1>1, <3>2 DEF Block, List
      <4>. QED  BY <1>1, <4>1, <4>2 DEF Engines, HeapIsOwned
    <3>. QED  BY <3>1, <3>2
  <2>. QED  BY <2>1, <2>2 DEF HeapIsOwned
<1>5. engine' \in [Handle -> EngineState] /\ live' \subseteq Handle
  BY <1>1, <1>2 DEF Engines
<1>6. heap' \subseteq [kind : {"engine"} \cup List, of : Handle]
  BY <1>1 DEF Engines, Block
<1>7. \A g \in live' : engine'[g].initialized
  BY <1>1, <1>2 DEF Engines
<1>. QED  BY <1>4, <1>5, <1>6, <1>7 DEF Engines

LEMMA FreeKeepsEngines ==
    ASSUME Engines, NEW t \in Thread, Free(t)
    PROVE  Engines'
<1>1. PICK h \in live :
        /\ live' = live \ {h}
        /\ heap' = heap \ {Block(k, h) : k \in {"engine"} \cup List}
        /\ engine' = [engine EXCEPT ![h] = Empty(FALSE)]
  BY DEF Free
<1>2. Empty(FALSE) \in EngineState
  BY EngineAssumption DEF Empty, EngineState, ResultType
<1>3. \A b \in heap' : b.of \in live'
  <2> SUFFICES ASSUME NEW b \in heap' PROVE b.of \in live'
    OBVIOUS
  <2>1. b \in [kind : {"engine"} \cup List, of : Handle] /\ b.of \in live
    BY <1>1 DEF Engines, HeapIsOwned
  <2>2. b = Block(b.kind, b.of) /\ b.kind \in {"engine"} \cup List
    BY <2>1 DEF Block
  <2>3. b.of /= h
    BY <1>1, <2>2
  <2>. QED  BY <1>1, <2>1, <2>3
<1>4. ASSUME NEW g \in live'
      PROVE  /\ Block("engine", g) \in heap'
             /\ \A l \in List : Block(l, g) \in heap' <=> engine'[g][l] > 0
             /\ engine'[g].initialized
  <2>1. g \in live /\ g /= h /\ engine'[g] = engine[g]
    BY <1>1 DEF Engines
  <2>2. \A k : Block(k, g) \in heap' <=> Block(k, g) \in heap
    BY <1>1, <2>1 DEF Block
  <2>. QED  BY <2>1, <2>2 DEF Engines, HeapIsOwned
<1>5. /\ engine' \in [Handle -> EngineState] /\ live' \subseteq Handle
      /\ heap' \subseteq [kind : {"engine"} \cup List, of : Handle]
  BY <1>1, <1>2 DEF Engines
<1>. QED  BY <1>3, <1>4, <1>5 DEF Engines, HeapIsOwned

LEMMA RunKeepsEngines ==
    ASSUME Engines, NEW h \in live, live' = live, heap' = heap,
           engine' = [engine EXCEPT ![h].result_type = "not_run"]
    PROVE  Engines'
<1>1. h \in Handle /\ engine[h] \in EngineState
  BY DEF Engines
<1>2. /\ engine'[h] = [engine[h] EXCEPT !.result_type = "not_run"]
      /\ \A g \in Handle \ {h} : engine'[g] = engine[g]
  BY <1>1 DEF Engines
<1>3. /\ engine'[h] \in EngineState
      /\ engine'[h].initialized = engine[h].initialized
      /\ engine'[h].safety = engine[h].safety /\ engine'[h].liveness = engine[h].liveness
  BY <1>1, <1>2 DEF EngineState, ResultType
<1>4. engine' \in [Handle -> EngineState]
  BY <1>2, <1>3 DEF Engines
<1>5. \A g \in live : \A l \in List :
         engine'[g][l] = engine[g][l] /\ engine'[g].initialized = engine[g].initialized
  BY <1>2, <1>3 DEF List, Engines
<1>. QED  BY <1>4, <1>5 DEF Engines, HeapIsOwned

LEMMA AppendKeepsEngines ==
    ASSUME Engines, NEW h \in live, NEW l \in List, Append(h, l), live' = live
    PROVE  Engines'
<1>1. /\ h \in Handle /\ engine[h] \in EngineState
      /\ engine[h][l] < MaxProps
      /\ engine' = [engine EXCEPT ![h] = Lengthen(engine[h], l)]
      /\ heap' = heap \cup {Block(l, h)}
  BY DEF Engines, Append
<1>2. /\ engine'[h] = Lengthen(engine[h], l)
      /\ \A g \in Handle \ {h} : engine'[g] = engine[g]
  <2>. QED  BY <1>1 DEF Engines
<1>3. /\ engine'[h] \in EngineState
      /\ engine'[h].initialized = engine[h].initialized
      /\ engine'[h][l] > 0
      /\ \A k \in List \ {l} : engine'[h][k] = engine[h][k]
  <2>1. CASE l = "safety"
    BY <1>1, <1>2, <2>1, EngineAssumption DEF Lengthen, EngineState, List
  <2>2. CASE l = "liveness"
    BY <1>1, <1>2, <2>2, EngineAssumption DEF Lengthen, EngineState, List
  <2>. QED  BY <2>1, <2>2 DEF List
<1>4. engine' \in [Handle -> EngineState]
  <2>. QED  BY <1>1, <1>2, <1>3 DEF Engines
<1>5. heap' \subseteq [kind : {"engine"} \cup List, of : Handle]
  BY <1>1 DEF Engines, Block
<1>6. \A b \in heap' : b.of \in live'
  BY <1>1 DEF Engines, HeapIsOwned, Block
<1>7. ASSUME NEW g \in live
      PROVE  /\ Block("engine", g) \in heap'
             /\ \A k \in List : Block(k, g) \in heap' <=> engine'[g][k] > 0
             /\ engine'[g].initialized
  <2>1. CASE g = h
    <3>1. \A k \in List \ {l} : Block(k, h) \in heap' <=> Block(k, h) \in heap
      BY <1>1 DEF Block
    <3>. QED  BY <1>1, <1>3, <2>1, <3>1 DEF Engines, HeapIsOwned
  <2>2. CASE g /= h
    <3>1. g \in Handle /\ engine'[g] = engine[g]
      BY <1>2, <2>2 DEF Engines
    <3>2. \A k : Block(k, g) \in heap' <=> Block(k, g) \in heap
      BY <1>1, <2>2 DEF Block
    <3>. QED  BY <3>1, <3>2 DEF Engines, HeapIsOwned
  <2>. QED  BY <2>1, <2>2
<1>. QED  BY <1>4, <1>5, <1>6, <1>7 DEF Engines, HeapIsOwned

LEMMA HandOverKeeps ==
    ASSUME Strings, NEW t \in Thread, NEW s, HandOver(t, s)
    PROVE  Strings'
  BY DEF Strings, StringsAreHeld, HandOver

LEMMA FreeStringKeeps ==
    ASSUME Strings, NEW t \in Thread, FreeString(t)
    PROVE  Strings'
<1>1. PICK s \in held[t] :
        /\ strings' = strings \ {s}
        /\ held' = [held EXCEPT ![t] = @ \ {s}]
  BY DEF FreeString
<1>2. \A u \in Thread : held'[u] = IF u = t THEN held[t] \ {s} ELSE held[u]
  BY <1>1 DEF Strings
<1>3. \A u \in Thread \ {t} : s \notin held[u]
  BY <1>1 DEF Strings, StringsAreHeld
<1>4. strings' \subseteq Str /\ held' \in [Thread -> SUBSET Str]
  BY <1>1 DEF Strings
<1>5. \A r \in strings' : \E u \in Thread : r \in held'[u]
  BY <1>1, <1>2 DEF Strings, StringsAreHeld
<1>6. \A u, w \in Thread : u /= w => held'[u] \cap held'[w] = {}
  BY <1>2 DEF Strings, StringsAreHeld
<1>7. \A u \in Thread : held'[u] \subseteq strings'
  BY <1>1, <1>2, <1>3 DEF Strings, StringsAreHeld
<1>. QED  BY <1>4, <1>5, <1>6, <1>7 DEF Strings, StringsAreHeld

\* What a call does beyond its checks, for each kind of call.
LEMMA RefusedKeeps ==
    ASSUME Reports, Engines, Strings, NEW t \in Thread, NEW h \in live \cup {Null},
           NEW ready, NEW args, Refusal(h, ready, args) /= Null,
           Refuse(t, Refusal(h, ready, args))
    PROVE  Reports' /\ Engines' /\ Strings'
<1>1. Reports'
  BY RefusalIs, RefuseKeeps
<1>. QED  BY <1>1, QuietKeeps DEF Refuse

\* A call that only checks refuses what it is given, or reports success.
LEMMA CheckOnlyKeeps ==
    ASSUME Reports, Engines, Strings, NEW t \in Thread,
           NEW m \in {"Null engine handle", "Null argument", Null}, CheckOnly(t, m)
    PROVE  Reports' /\ Engines' /\ Strings'
<1>1. CASE m /= Null
  <2>1. Refuse(t, m)
    BY <1>1 DEF CheckOnly
  <2>. QED  BY <1>1, <2>1, RefuseKeeps, QuietKeeps DEF Refuse
<1>2. CASE m = Null
  BY <1>2, SuccessKeeps, QuietKeeps DEF CheckOnly
<1>. QED  BY <1>1, <1>2

LEMMA HandleKeeps ==
    ASSUME Reports, Engines, Strings, NEW t \in Thread, NEW h \in live \cup {Null},
           OnHandle(t, h)
    PROVE  Reports' /\ Engines' /\ Strings'
<1>1. ASSUME NEW a \in Argument, CallPlain(t, h, a)
      PROVE  Reports' /\ Engines' /\ Strings'
  BY <1>1, RefusalIs, CheckOnlyKeeps DEF CallPlain
<1>2. ASSUME NEW cb \in Argument, RegisterCallback(t, h, cb)
      PROVE  Reports' /\ Engines' /\ Strings'
  BY <1>2, RefusalIs, CheckOnlyKeeps DEF RegisterCallback
<1>3. ASSUME NEW a \in Argument, RunTlc(t, h, a)
      PROVE  Reports' /\ Engines' /\ Strings'
  <2>1. CASE Refusal(h, TRUE, {a}) /= Null
    BY <1>3, <2>1, RefusedKeeps DEF RunTlc
  <2>2. CASE Refusal(h, TRUE, {a}) = Null
    <3>1. h \in live
      BY <2>2, RefusalIs
    <3>2. Engines'
      BY <1>3, <2>2, <3>1, RunKeepsEngines DEF RunTlc
    <3>. QED  BY <1>3, <2>2, <3>2, SuccessKeeps, QuietKeeps DEF RunTlc
  <2>. QED  BY <2>1, <2>2
<1>4. ASSUME NEW l \in List, NEW n \in Argument, NEW x \in Argument, Add(t, l, h, n, x)
      PROVE  Reports' /\ Engines' /\ Strings'
  <2>1. CASE Refusal(h, FALSE, {n, x}) /= Null
    BY <1>4, <2>1, RefusedKeeps DEF Add
  <2>2. CASE Refusal(h, FALSE, {n, x}) = Null
    <3>1. h \in live
      BY <2>2, RefusalIs
    <3>2. Engines'
      BY <1>4, <2>2, <3>1, AppendKeepsEngines DEF Add
    <3>. QED  BY <1>4, <2>2, <3>2, SuccessKeeps, QuietKeeps DEF Add
  <2>. QED  BY <2>1, <2>2
<1>5. CASE GetTraceString(t, h)
  <2>1. CASE h = Null
    BY <1>5, <2>1, RefuseKeeps, QuietKeeps DEF GetTraceString, Refuse
  <2>2. CASE h /= Null
    <3>1. Strings'
      BY <1>5, <2>2, QuietKeeps, HandOverKeeps DEF GetTraceString
    <3>2. Reports'
      BY <1>5, <2>2 DEF GetTraceString, Reports, ErrorIsOwn
    <3>. QED  BY <1>5, <2>2, <3>1, <3>2, QuietKeeps DEF GetTraceString
  <2>. QED  BY <2>1, <2>2
<1>6. CASE GetString(t, h)
  <2>1. CASE Refusal(h, TRUE, {}) /= Null
    BY <1>6, <2>1, RefusedKeeps DEF GetString
  <2>2. CASE Refusal(h, TRUE, {}) = Null /\ engine[h].generated_spec = Null
    BY <1>6, <2>2, RefuseKeeps, QuietKeeps DEF GetString, Refuse
  <2>3. CASE Refusal(h, TRUE, {}) = Null /\ engine[h].generated_spec /= Null
    BY <1>6, <2>3, SuccessKeeps, QuietKeeps, HandOverKeeps DEF GetString
  <2>. QED  BY <2>1, <2>2, <2>3
<1>. QED  BY <1>1, <1>2, <1>3, <1>4, <1>5, <1>6 DEF OnHandle

LEMMA StepKeeps ==
    ASSUME Reports, Engines, Strings, [Next]_vars
    PROVE  Reports' /\ Engines' /\ Strings'
<1>1. CASE UNCHANGED vars
  BY <1>1, QuietKeeps DEF vars, Reports, ErrorIsOwn
<1>2. ASSUME NEW t \in Thread, InitFails(t)
      PROVE  Reports' /\ Engines' /\ Strings'
  BY <1>2, FailureKeeps, QuietKeeps DEF InitFails
<1>3. ASSUME NEW t \in Thread, InitSucceeds(t)
      PROVE  Reports' /\ Engines' /\ Strings'
  <2>1. Engines'
    BY <1>3, InitKeepsEngines
  <2>. QED  BY <1>3, <2>1, SuccessKeeps, QuietKeeps DEF InitSucceeds
<1>4. ASSUME NEW t \in Thread, Free(t)
      PROVE  Reports' /\ Engines' /\ Strings'
  <2>1. Engines'
    BY <1>4, FreeKeepsEngines
  <2>. QED  BY <1>4, <2>1, SuccessKeeps, QuietKeeps DEF Free
<1>5. ASSUME NEW t \in Thread, NEW h \in live, NEW l \in List, AddFails(t, l, h)
      PROVE  Reports' /\ Engines' /\ Strings'
  BY <1>5, FailureKeeps, QuietKeeps DEF AddFails
<1>6. ASSUME NEW t \in Thread, LastError(t)
      PROVE  Reports' /\ Engines' /\ Strings'
  <2>1. Reports'
    BY <1>6 DEF LastError, Reports, ErrorIsOwn
  <2>. QED  BY <1>6, <2>1, QuietKeeps, HandOverKeeps DEF LastError
<1>7. ASSUME NEW t \in Thread, FreeString(t)
      PROVE  Reports' /\ Engines' /\ Strings'
  <2>1. Reports'
    BY <1>7 DEF FreeString, Reports, ErrorIsOwn
  <2>. QED  BY <1>7, <2>1, QuietKeeps, FreeStringKeeps DEF FreeString
<1>. QED  BY <1>1, <1>2, <1>3, <1>4, <1>5, <1>6, <1>7, HandleKeeps DEF Next

LEMMA StepIInv == IInv /\ [Next]_vars => IInv'
<1> SUFFICES ASSUME IInv, [Next]_vars PROVE IInv'
  OBVIOUS
<1>1. Reports' /\ Engines' /\ Strings'
  BY Parts, StepKeeps
<1>. QED  BY <1>1 DEF IInv, TypeOK, Reports, Engines, Strings, LiveIsInitialized

(* Whatever threads, engines and strings there are, the invariant holds: it *)
(* is inductive, its parts (errors and answers, engines and blocks, strings *)
(* and who holds them) are each preserved on their own.                     *)
THEOREM Invariance == Spec => []IInv
<1>. QED  BY InitIInv, StepIInv, PTL DEF Spec

(* A thread finds an error exactly when its own last reporting call failed, *)
(* whatever the other threads have called since.                            *)
THEOREM ErrorTheorem == Spec => []ErrorIsOwn
<1>1. IInv => ErrorIsOwn
  BY DEF IInv
<1>. QED  BY <1>1, Invariance, PTL

(* Every block belongs to a live engine: free gives back all it took.       *)
THEOREM HeapTheorem == Spec => []HeapIsOwned
<1>1. IInv => HeapIsOwned
  BY DEF IInv
<1>. QED  BY <1>1, Invariance, PTL

(* No call on a live handle can answer that the engine is not initialized.  *)
THEOREM InitializedTheorem == Spec => []LiveIsInitialized
<1>1. IInv => LiveIsInitialized
  BY DEF IInv
<1>. QED  BY <1>1, Invariance, PTL

(* Every string handed out can still be freed, by exactly one thread.       *)
THEOREM StringTheorem == Spec => []StringsAreHeld
<1>1. IInv => StringsAreHeld
  BY DEF IInv
<1>. QED  BY <1>1, Invariance, PTL

\* A step changes an engine, the heap or the strings only when it answers ok
\* or answers nothing.
LEMMA StepAnswers ==
    ASSUME Engines, [Next]_vars
    PROVE  \/ UNCHANGED <<live, engine, heap, strings>>
           \/ UNCHANGED answer
           \/ \E t \in Thread : Answer(t, "ok")
<1>1. ASSUME NEW t \in Thread, NEW h \in live \cup {Null}, OnHandle(t, h)
      PROVE  \/ UNCHANGED <<live, engine, heap, strings>>
             \/ UNCHANGED answer
             \/ Answer(t, "ok")
  BY <1>1 DEF OnHandle, CallPlain, RegisterCallback, CheckOnly, RunTlc, Add,
               GetTraceString, GetString, Refuse
<1>2. ASSUME NEW t \in Thread, InitSucceeds(t) \/ Free(t)
      PROVE  Answer(t, "ok")
  BY <1>2 DEF InitSucceeds, Free
<1>3. ASSUME NEW t \in Thread, LastError(t) \/ FreeString(t)
      PROVE  UNCHANGED answer
  BY <1>3 DEF LastError, FreeString
<1>4. ASSUME NEW t \in Thread,
             InitFails(t) \/ \E h \in live, l \in List : AddFails(t, l, h)
      PROVE  UNCHANGED <<live, engine, heap, strings>>
  BY <1>4 DEF InitFails, AddFails
<1>5. CASE UNCHANGED vars
  BY <1>5 DEF vars
<1>. QED  BY <1>1, <1>2, <1>3, <1>4, <1>5 DEF Next

(* A call whose answer becomes a failure has changed no engine and has      *)
(* allocated nothing.                                                       *)
THEOREM FailureTheorem == Spec => FailureChangesNothing
<1>1. ASSUME IInv, [Next]_vars, NEW t \in Thread,
             answer'[t] /= answer[t], answer'[t] \in Result \ {"ok"}
      PROVE  UNCHANGED <<live, engine, heap, strings>>
  <2>1. answer \in [Thread -> Result] /\ Engines
    BY <1>1, Parts DEF Reports
  <2>2. ASSUME NEW u \in Thread, Answer(u, "ok")
        PROVE  FALSE
    BY <1>1, <2>1, <2>2 DEF Answer
  <2>. QED  BY <1>1, <2>1, <2>2, StepAnswers
<1>2. IInv /\ [Next]_vars =>
        [\A t \in Thread :
           answer'[t] /= answer[t] /\ answer'[t] \in Result \ {"ok"} =>
               UNCHANGED <<live, engine, heap, strings>>]_vars
  BY <1>1
<1>. QED  BY <1>2, Invariance, PTL DEF Spec, FailureChangesNothing
==============================================================================
