------------------------------- MODULE Engine -------------------------------
(***************************************************************************)
(* The engine behind the C interface (interface/ffi/src/main.zig): handles *)
(* and what they own on the heap, the thread-local last error, and the     *)
(* strings whose ownership passes to the caller.  Each exported function   *)
(* is one step; its clients are threads that keep to the interface: they   *)
(* pass null or a live handle, free a string once, and never call on one   *)
(* handle from two threads at a time (nothing in the engine locks).        *)
(*                                                                         *)
(* An allocation may fail wherever the code handles that.                  *)
(***************************************************************************)
EXTENDS Naturals, FiniteSets

CONSTANTS
    Thread,
    Handle,     \* addresses an engine may be given
    Str,        \* addresses a string may be given; bound: strings at once
    Null,       \* the null pointer
    MaxProps    \* bound: properties added to one list

Result == {"ok", "invalid_param", "out_of_memory", "null_pointer", "error"}
Message == {"Null engine handle", "Null argument", "Engine not initialized",
            "Allocation failed", "No generated content available"}
ASSUME EngineAssumption ==
    /\ Null \notin Handle \cup Str \cup Message
    /\ Handle \cap Str = {}
    /\ MaxProps \in Nat

ResultType == {"all_properties_hold", "safety_violation", "liveness_violation",
               "deadlock", "interrupted", "not_run"}

\* An argument that is a pointer the callee only compares with null.
Argument == {"pointer", "null"}
VARIABLES
    live,        \* handles init has returned and free has not taken back
    engine,      \* the EngineState at each address
    heap,        \* blocks allocated: an engine or one of its two lists
    strings,     \* strings allocated
    held,        \* the strings each thread has a pointer to
    last_error,  \* per thread
    answer       \* per thread: what its last call that reports came back with

vars == <<live, engine, heap, strings, held, last_error, answer>>

------------------------------------------------------------------------------
EngineState ==
    [initialized : BOOLEAN, generated_spec : Str \cup {Null}, trace_string : Str \cup {Null},
     result_type : ResultType, safety : 0 .. MaxProps, liveness : 0 .. MaxProps]
Empty(initialized) ==
    [initialized |-> initialized, generated_spec |-> Null, trace_string |-> Null,
     result_type |-> "not_run", safety |-> 0, liveness |-> 0]
Fresh == Empty(TRUE)
List == {"safety", "liveness"}
Block(kind, h) == [kind |-> kind, of |-> h]

\* threadlocal var last_error, and the same variable without the keyword.
SharedError(t, m) == last_error' = [u \in Thread |-> m]
SetError(t, m) == last_error' = [last_error EXCEPT ![t] = m]
ClearError(t) == SetError(t, Null)
Answer(t, v) == answer' = [answer EXCEPT ![t] = v]

Init ==
    /\ live = {}
    /\ engine = [h \in Handle |-> Fresh]
    /\ heap = {} /\ strings = {}
    /\ held = [t \in Thread |-> {}]
    /\ last_error = [t \in Thread |-> Null]
    /\ answer = [t \in Thread |-> "ok"]

\* tlaiser_init.  (Slip: the fields are not set.)
InitFails(t) ==
    /\ SetError(t, "Allocation failed")
    /\ Answer(t, "out_of_memory")
    /\ UNCHANGED <<live, engine, heap, strings, held>>
InitKeepsMemory(t) ==
    /\ \E h \in Handle \ live :
         /\ live' = live \cup {h}
         /\ heap' = heap \cup {Block("engine", h)}
    /\ ClearError(t)
    /\ Answer(t, "ok")
    /\ UNCHANGED <<engine, strings, held>>
InitSucceeds(t) ==
    /\ \E h \in Handle \ live :
         /\ live' = live \cup {h}
         /\ engine' = [engine EXCEPT ![h] = Fresh]
         /\ heap' = heap \cup {Block("engine", h)}
    /\ ClearError(t)
    /\ Answer(t, "ok")
    /\ UNCHANGED <<strings, held>>

\* tlaiser_free; what is left at the address is never read.  Null is left
\* alone, and so is the error then.  (Slip: one list is not deinitialised.)
FreeForgetsList(t) ==
    /\ \E h \in live :
         /\ live' = live \ {h}
         /\ heap' = heap \ {Block("engine", h), Block("safety", h)}
         /\ engine' = [engine EXCEPT ![h] = Empty(FALSE)]
    /\ ClearError(t)
    /\ Answer(t, "ok")
    /\ UNCHANGED <<strings, held>>
Free(t) ==
    /\ \E h \in live :
         /\ live' = live \ {h}
         /\ heap' = heap \ {Block(k, h) : k \in {"engine"} \cup List}
         /\ engine' = [engine EXCEPT ![h] = Empty(FALSE)]
    /\ ClearError(t)
    /\ Answer(t, "ok")
    /\ UNCHANGED <<strings, held>>

\* The checks every reporting function begins with; Null when all pass.
Refusal(h, ready, args) ==
    IF h = Null THEN "Null engine handle"
    ELSE IF ready /\ ~engine[h].initialized THEN "Engine not initialized"
    ELSE IF "null" \in args THEN "Null argument" ELSE Null
Code(m) == IF m = "Engine not initialized" THEN "error" ELSE "null_pointer"
Refuse(t, m) ==
    /\ SetError(t, m) /\ Answer(t, Code(m))
    /\ UNCHANGED <<live, engine, heap, strings, held>>

\* extract_state_machine, generate_*: nothing but the checks so far (the
\* counts are set to the 0 they have).  register_progress_callback looks at
\* its argument before it asks whether the engine is initialised.
CheckOnly(t, m) ==
    IF m /= Null THEN Refuse(t, m)
    ELSE /\ ClearError(t) /\ Answer(t, "ok")
         /\ UNCHANGED <<live, engine, heap, strings, held>>
CallPlain(t, h, arg) == CheckOnly(t, Refusal(h, TRUE, {arg}))
RegisterCallback(t, h, cb) ==
    LET early == Refusal(h, FALSE, {cb})
    IN  CheckOnly(t, IF early /= Null THEN early ELSE Refusal(h, TRUE, {}))

\* run_tlc resets what an earlier run left.
RunTlc(t, h, arg) ==
    LET m == Refusal(h, TRUE, {arg})
    IN  IF m /= Null THEN Refuse(t, m)
        ELSE /\ engine' = [engine EXCEPT ![h].result_type = "not_run"]
             /\ ClearError(t) /\ Answer(t, "ok")
             /\ UNCHANGED <<live, heap, strings, held>>

\* add_safety_property and add_liveness_property: the first entry allocates
\* the list; append may fail.  (Slip: the expression is looked at last.)
Lengthen(e, l) == [e EXCEPT ![l] = @ + 1]
Append(h, l) ==
    /\ engine[h][l] < MaxProps
    /\ engine' = [engine EXCEPT ![h] = Lengthen(engine[h], l)]
    /\ heap' = heap \cup {Block(l, h)}
AddBeforeCheck(t, l, h, name, expr) ==
    LET m == Refusal(h, FALSE, {name})
    IN  IF m /= Null THEN Refuse(t, m)
        ELSE /\ Append(h, l)
             /\ IF expr = "null"
                  THEN SetError(t, "Null argument") /\ Answer(t, "null_pointer")
                  ELSE ClearError(t) /\ Answer(t, "ok")
             /\ UNCHANGED <<live, strings, held>>
Add(t, l, h, name, expr) ==
    LET m == Refusal(h, FALSE, {name, expr})
    IN  IF m /= Null THEN Refuse(t, m)
        ELSE /\ Append(h, l)
             /\ ClearError(t) /\ Answer(t, "ok")
             /\ UNCHANGED <<live, strings, held>>
AddFails(t, l, h) ==
    /\ SetError(t, "Allocation failed")
    /\ Answer(t, "out_of_memory")
    /\ UNCHANGED <<live, engine, heap, strings, held>>

\* A copy for the caller.  (Slip: one buffer serves every caller.)
StaticBuffer(t, s) ==
    /\ s \in Str
    /\ strings' = strings \cup {s}
    /\ held' = [held EXCEPT ![t] = @ \cup {s}]
HandOver(t, s) ==
    /\ s \in Str \ strings
    /\ strings' = strings \cup {s}
    /\ held' = [held EXCEPT ![t] = @ \cup {s}]

\* get_trace_string: without a trace it returns null and leaves the error as
\* it is, and so does a copy.  get_string sets or clears it.
GetTraceString(t, h) ==
    IF h = Null THEN Refuse(t, "Null engine handle")
    ELSE /\ IF engine[h].trace_string = Null THEN UNCHANGED <<strings, held>>
            ELSE \E s \in Str : HandOver(t, s)
         /\ UNCHANGED <<live, engine, heap, last_error, answer>>
GetString(t, h) ==
    LET m == Refusal(h, TRUE, {})
    IN  IF m /= Null THEN Refuse(t, m)
        ELSE IF engine[h].generated_spec = Null THEN Refuse(t, "No generated content available")
        ELSE /\ \E s \in Str : HandOver(t, s)
             /\ ClearError(t) /\ Answer(t, "ok")
             /\ UNCHANGED <<live, engine, heap>>

\* last_error: a copy of the calling thread's message; null without one, and
\* when there is no memory for it.
LastError(t) ==
    /\ last_error[t] /= Null
    /\ \E s \in Str : HandOver(t, s)
    /\ UNCHANGED <<live, engine, heap, last_error, answer>>

\* free_string, once for each string, by a thread that has the pointer.
FreeString(t) ==
    /\ \E s \in held[t] :
         /\ strings' = strings \ {s}
         /\ held' = [held EXCEPT ![t] = @ \ {s}]
    /\ UNCHANGED <<live, engine, heap, last_error, answer>>

OnHandle(t, h) ==
    \/ \E a \in Argument : CallPlain(t, h, a)
    \/ \E cb \in Argument : RegisterCallback(t, h, cb)
    \/ \E a \in Argument : RunTlc(t, h, a)
    \/ \E l \in List, n, x \in Argument : Add(t, l, h, n, x)
    \/ GetTraceString(t, h)
    \/ GetString(t, h)

Next ==
    \E t \in Thread :
        \/ InitFails(t) \/ InitSucceeds(t) \/ Free(t)
        \/ \E h \in live \cup {Null} : OnHandle(t, h)
        \/ \E h \in live, l \in List : AddFails(t, l, h)
        \/ LastError(t) \/ FreeString(t)

Spec == Init /\ [][Next]_vars

------------------------------------------------------------------------------
TypeOK ==
    /\ live \subseteq Handle
    /\ engine \in [Handle -> EngineState]
    /\ heap \subseteq [kind : {"engine"} \cup List, of : Handle]
    /\ strings \subseteq Str
    /\ held \in [Thread -> SUBSET Str]
    /\ last_error \in [Thread -> Message \cup {Null}]
    /\ answer \in [Thread -> Result]

(* "Thread-local error message for the last failed operation", null after a *)
(* success: whatever other threads have done since, a thread finds an error *)
(* exactly when its own last reporting call failed, and one that explains   *)
(* the code it got.                                                         *)
Explains(m, v) ==
    /\ m = Null <=> v = "ok"
    /\ m = "Allocation failed" <=> v = "out_of_memory"
    /\ m = "Engine not initialized" <=> v = "error"
ErrorIsOwn ==
    \A t \in Thread : Explains(last_error[t], answer[t])

(* "Free the engine handle and all associated resources": what is allocated *)
(* at any time belongs to a live handle, a list only once it has entries.   *)
HeapIsOwned ==
    /\ \A b \in heap : b.of \in live
    /\ \A h \in live :
         /\ Block("engine", h) \in heap
         /\ \A l \in List : Block(l, h) \in heap <=> engine[h][l] > 0

(* A live handle is initialised, so no call answers that it is not.         *)
LiveIsInitialized ==
    /\ \A h \in live : engine[h].initialized
    /\ \A t \in Thread : last_error[t] /= "Engine not initialized"

(* A call that fails has changed no engine and allocated nothing.           *)
FailureChangesNothing ==
    [][\A t \in Thread :
          answer'[t] /= answer[t] /\ answer'[t] \in Result \ {"ok"} =>
              UNCHANGED <<live, engine, heap, strings>>]_vars

(* "Caller must free the returned string": every string that is allocated   *)
(* can still be freed, for exactly one thread has a pointer to it.          *)
StringsAreHeld ==
    /\ \A s \in strings : \E t \in Thread : s \in held[t]
    /\ \A t, u \in Thread : t /= u => held[t] \cap held[u] = {}
    /\ \A t \in Thread : held[t] \subseteq strings

(* The invariants are inductive together.                                   *)
IInv == TypeOK /\ ErrorIsOwn /\ HeapIsOwned /\ LiveIsInitialized /\ StringsAreHeld
==============================================================================
