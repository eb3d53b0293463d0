------------------------------ MODULE FfiBatch ------------------------------
(***************************************************************************)
(* The batch entry of the C API: geo_repair_make_valid_batch, serial or on *)
(* a rayon pool, and the caller who frees what it hands out.  An item      *)
(* yields a WKB buffer or an error message; both, and the array of items,  *)
(* are raw allocations that nothing but the free functions releases.       *)
(* One catch_unwind surrounds the whole batch.                             *)
(***************************************************************************)
EXTENDS Naturals, Sequences

CONSTANTS MaxItems,   \* inputs of a batch, at most
          Workers,    \* threads of the rayon pool
          MaxFrees    \* free calls the caller makes, at most

ASSUME MaxItemsAssumption == MaxItems \in Nat
ASSUME MaxFreesAssumption == MaxFrees \in Nat

(* What becomes of an input: repaired and written (the writer never       *)
(* fails), rejected by the null or length check or by the parser, or a     *)
(* repair that panics.                                                     *)
Errors == {"InvalidInput", "Parse"}
Fates == Errors \cup {"repaired", "panic"}

VARIABLES inputs,   \* the fates of the inputs, by position
          mode,     \* "serial", "parallel", or "null" when the array is a null pointer
          pc,       \* where the call is: "call", "serial", "pool", "returned"
          next,     \* serial loop: position of the next input
          slots,    \* pool: the outcome of each position, "todo" until there is one
          busy,     \* pool: the position each worker is at, 0 when idle
          items,    \* the items built so far, by position
          result,   \* the struct the caller holds
          heap,     \* raw allocations that are live
          frees,    \* free calls made
          misfreed  \* a pointer was freed that was not live

vars == <<inputs, mode, pc, next, slots, busy, items, result, heap, frees, misfreed>>

(* An item as the C struct has it: a code and two pointers.  A pointer is  *)
(* the allocation it owns or "null".                                       *)
Null == <<"null">>

Item(i, fate) ==
  IF fate \in Errors THEN [code |-> fate, wkb |-> Null, msg |-> <<"msg", i>>]
                     ELSE [code |-> "None", wkb |-> <<"wkb", i>>, msg |-> Null]

Pointers(item) == {item.wkb, item.msg} \ {Null}
NoItems == [i \in {} |-> Null]

Failed(code) == [success |-> FALSE, code |-> code, items |-> Null, count |-> 0,
                 msg |-> <<"batch_msg">>]

(* An empty batch has no array.                                            *)
Succeeded(n) == [success |-> TRUE, code |-> "None",
                 items |-> IF n = 0 THEN Null ELSE <<"array">>,
                 count |-> n, msg |-> Null]

Zeroed == [success |-> FALSE, code |-> "None", items |-> Null, count |-> 0, msg |-> Null]

Batches == UNION {[1 .. n -> Fates] : n \in 0 .. MaxItems}
Count == Len(inputs)

Init == /\ inputs \in Batches
        /\ mode \in {"serial", "parallel", "null"}
        /\ pc = "call"
        /\ next = 1
        /\ slots = [i \in DOMAIN inputs |-> "todo"]
        /\ busy = [w \in Workers |-> 0]
        /\ items = NoItems
        /\ result = Zeroed
        /\ heap = {}
        /\ frees = 0
        /\ misfreed = FALSE

Return(r, allocated) == /\ pc' = "returned"
                        /\ result' = r
                        /\ heap' = heap \cup allocated

(***************************************************************************)
(* The call.                                                               *)
(***************************************************************************)
ReturnEarly == /\ pc = "call"
               /\ \/ Count = 0 /\ Return(Succeeded(0), {})
                  \/ Count > 0 /\ mode = "null"
                     /\ Return(Failed("InvalidInput"), {<<"batch_msg">>})
               /\ UNCHANGED <<inputs, mode, next, slots, busy, items, frees, misfreed>>

(* Before the pool starts every input is parsed on the calling thread; an  *)
(* input that failed still passes through a worker.                        *)
Enter == /\ pc = "call"
         /\ Count > 0
         /\ mode # "null"
         /\ pc' = IF mode = "serial" THEN "serial" ELSE "pool"
         /\ UNCHANGED <<inputs, mode, next, slots, busy, items, result, heap, frees, misfreed>>

(* Mutant: the item of an input that fails to parse is pushed twice.       *)
SerialItemTwice ==
  /\ pc = "serial"
  /\ next <= Count
  /\ inputs[next] # "panic"
  /\ LET built == IF inputs[next] = "Parse" THEN {next, next + 1} ELSE {next}
     IN  /\ items' = [i \in DOMAIN items \cup built |->
                         IF i \in built THEN Item(i, inputs[next]) ELSE items[i]]
         /\ heap' = heap \cup UNION {Pointers(Item(i, inputs[next])) : i \in built}
  /\ next' = next + 1
  /\ UNCHANGED <<inputs, mode, pc, slots, busy, result, frees, misfreed>>

(* repair_batch_sequential builds the item of each input as it goes, with  *)
(* its raw pointers.                                                       *)
SerialItem == /\ pc = "serial"
              /\ next <= Count
              /\ inputs[next] # "panic"
              /\ items' = [i \in DOMAIN items \cup {next} |->
                             IF i = next THEN Item(i, inputs[i]) ELSE items[i]]
              /\ heap' = heap \cup Pointers(Item(next, inputs[next]))
              /\ next' = next + 1
              /\ UNCHANGED <<inputs, mode, pc, slots, busy, result, frees, misfreed>>

(* The panic unwinds through the loop: the items go, what they point to    *)
(* stays allocated.                                                        *)
SerialPanic == /\ pc = "serial"
               /\ next <= Count
               /\ inputs[next] = "panic"
               /\ items' = NoItems
               /\ Return(Failed("Panic"), {<<"batch_msg">>})
               /\ UNCHANGED <<inputs, mode, next, slots, busy, frees, misfreed>>

SerialReturn == /\ pc = "serial"
                /\ next > Count
                /\ Return(Succeeded(Count), {<<"array">>})
                /\ UNCHANGED <<inputs, mode, next, slots, busy, items, frees, misfreed>>

(***************************************************************************)
(* The pool: any idle worker takes any position that is left, and settles  *)
(* it whenever it is done.  The outcomes are owned buffers, not yet raw.   *)
(***************************************************************************)
Taken(i) == \E w \in Workers : busy[w] = i

Take(w) == /\ pc = "pool"
           /\ busy[w] = 0
           /\ \E i \in DOMAIN inputs : /\ slots[i] = "todo"
                                       /\ ~Taken(i)
                                       /\ busy' = [busy EXCEPT ![w] = i]
           /\ UNCHANGED <<inputs, mode, pc, next, slots, items, result, heap, frees, misfreed>>

(* Mutant: an outcome goes to the first free position, in completion order. *)
SettleInOrder(w) ==
  /\ pc = "pool"
  /\ busy[w] # 0
  /\ \E i \in DOMAIN inputs : /\ slots[i] = "todo"
                              /\ \A j \in DOMAIN inputs : j < i => slots[j] # "todo"
                              /\ slots' = [slots EXCEPT ![i] = inputs[busy[w]]]
  /\ busy' = [busy EXCEPT ![w] = 0]
  /\ UNCHANGED <<inputs, mode, pc, next, items, result, heap, frees, misfreed>>

Settle(w) == /\ pc = "pool"
             /\ busy[w] # 0
             /\ slots' = [slots EXCEPT ![busy[w]] = inputs[busy[w]]]
             /\ busy' = [busy EXCEPT ![w] = 0]
             /\ UNCHANGED <<inputs, mode, pc, next, items, result, heap, frees, misfreed>>

(* A panic in a job is raised again on the calling thread once no worker   *)
(* is busy; positions its worker would have come to next may be left over. *)
(* No item is raw yet.                                                     *)
Idle == pc = "pool" /\ \A w \in Workers : busy[w] = 0
Panicked == \E i \in DOMAIN inputs : slots[i] = "panic"

(* Mutant: a job that panics never counts as done.                         *)
PoolPanicWhenAllDone == /\ Idle
                        /\ \A i \in DOMAIN inputs : slots[i] \notin {"todo", "panic"}
                        /\ Return(Failed("Panic"), {<<"batch_msg">>})
                        /\ UNCHANGED <<inputs, mode, next, slots, busy, items, frees, misfreed>>

PoolPanic == /\ Idle
             /\ Panicked
             /\ Return(Failed("Panic"), {<<"batch_msg">>})
             /\ UNCHANGED <<inputs, mode, next, slots, busy, items, frees, misfreed>>

PoolReturn == /\ pc = "pool"
              /\ \A i \in DOMAIN inputs : slots[i] \notin {"todo", "panic"}
              /\ items' = [i \in DOMAIN inputs |-> Item(i, slots[i])]
              /\ Return(Succeeded(Count),
                        {<<"array">>} \cup UNION {Pointers(items'[i]) : i \in DOMAIN inputs})
              /\ UNCHANGED <<inputs, mode, next, slots, busy, frees, misfreed>>

(***************************************************************************)
(* The caller: geo_repair_free_result on an item, geo_repair_free_batch_   *)
(* result on the batch, in any order and more often than needed.  Each     *)
(* frees what its struct points to and zeroes the struct.                  *)
(***************************************************************************)
Release(pointers) == /\ heap' = heap \ pointers
                     /\ misfreed' = (misfreed \/ ~(pointers \subseteq heap))
                     /\ frees' = frees + 1

(* Mutant: the item keeps its pointers.                                    *)
FreeItemDangling(i) == /\ pc = "returned"
                       /\ frees < MaxFrees
                       /\ result.items # Null
                       /\ Release(Pointers(items[i]))
                       /\ UNCHANGED <<inputs, mode, pc, next, slots, busy, items, result>>

FreeItem(i) == /\ pc = "returned"
               /\ frees < MaxFrees
               /\ result.items # Null
               /\ Release(Pointers(items[i]))
               /\ items' = [items EXCEPT ![i] = [code |-> "None", wkb |-> Null, msg |-> Null]]
               /\ UNCHANGED <<inputs, mode, pc, next, slots, busy, result>>

(* Mutant: the messages of the items are forgotten.                        *)
FreeBatchBuffersOnly ==
  /\ pc = "returned"
  /\ frees < MaxFrees
  /\ Release(({result.items, result.msg} \ {Null}) \cup
             IF result.items = Null THEN {}
             ELSE {items[i].wkb : i \in DOMAIN items} \ {Null})
  /\ result' = Zeroed
  /\ items' = NoItems
  /\ UNCHANGED <<inputs, mode, pc, next, slots, busy>>

FreeBatch == /\ pc = "returned"
             /\ frees < MaxFrees
             /\ Release(({result.items, result.msg} \ {Null}) \cup
                        IF result.items = Null THEN {}
                        ELSE UNION {Pointers(items[i]) : i \in DOMAIN items})
             /\ result' = Zeroed
             /\ items' = NoItems
             /\ UNCHANGED <<inputs, mode, pc, next, slots, busy>>

Next == \/ ReturnEarly \/ Enter
        \/ SerialItem \/ SerialPanic \/ SerialReturn
        \/ \E w \in Workers : Take(w) \/ Settle(w)
        \/ PoolPanic \/ PoolReturn
        \/ \E i \in DOMAIN items : FreeItem(i)
        \/ FreeBatch

(* The calling thread and every worker keep running; nobody makes the      *)
(* caller free anything.                                                   *)
CallStep == \/ ReturnEarly \/ Enter \/ SerialItem \/ SerialPanic \/ SerialReturn
            \/ PoolPanic \/ PoolReturn

Spec == /\ Init
        /\ [][Next]_vars
        /\ WF_vars(CallStep)
        /\ \A w \in Workers : WF_vars(Take(w) \/ Settle(w))

(***************************************************************************)
(* What the caller relies on.                                              *)
(***************************************************************************)
Pointer == {<<"batch_msg">>, <<"array">>} \cup ({"wkb", "msg"} \X (1 .. MaxItems))

ItemType == [code : {"None"} \cup Errors, wkb : Pointer \cup {Null}, msg : Pointer \cup {Null}]

ResultType == [success : BOOLEAN, code : {"None", "InvalidInput", "Panic"},
               items : {Null, <<"array">>}, count : 0 .. MaxItems,
               msg : {Null, <<"batch_msg">>}]

TypeOK == /\ inputs \in Batches
          /\ mode \in {"serial", "parallel", "null"}
          /\ pc \in {"call", "serial", "pool", "returned"}
          /\ next \in 1 .. (Count + 1)
          /\ slots \in [DOMAIN inputs -> Fates \cup {"todo"}]
          /\ busy \in [Workers -> {0} \cup DOMAIN inputs]
          /\ \E D \in SUBSET DOMAIN inputs : items \in [D -> ItemType]
          /\ result \in ResultType
          /\ heap \subseteq Pointer
          /\ frees \in 0 .. MaxFrees
          /\ misfreed \in BOOLEAN

(* One result per input, in input order, whichever worker finished when,   *)
(* and the same ones from the serial loop; a panic anywhere fails the      *)
(* batch, and nothing else does.                                           *)
OutcomeInPlace ==
  pc = "returned" /\ frees = 0 /\ mode # "null" =>
    /\ result.success <=> \A i \in DOMAIN inputs : inputs[i] # "panic"
    /\ result.success => /\ result.count = Count
                         /\ items = [i \in DOMAIN inputs |-> Item(i, inputs[i])]

(* The free functions are safe in any order and any number of times: no    *)
(* pointer is ever freed twice ("double-free safe").                       *)
FreedOnce == ~misfreed

(* What a caller who frees the batch can no longer reach is released, but  *)
(* for the items a serial batch had built when a repair panicked: those    *)
(* were never handed out, and GeoRepairResult has no Drop.                 *)
FirstPanic(i) == inputs[i] = "panic" /\ \A j \in DOMAIN inputs : j < i => inputs[j] # "panic"

Orphans == IF mode = "serial"
           THEN {p \in Pointer : \E i \in DOMAIN inputs : /\ FirstPanic(i)
                                                         /\ \E j \in DOMAIN inputs : j < i
                                                              /\ p \in Pointers(Item(j, inputs[j]))}
           ELSE {}

NothingElseLeft == pc = "returned" /\ result = Zeroed => heap = Orphans

(* "The batch does not fail as a whole": a batch of readable inputs        *)
(* succeeds, and reports what failed item by item.                         *)
BatchIsolates == pc = "returned" /\ frees = 0 /\ mode # "null" => result.success

(* A batch returns, panicking jobs included.                               *)
CallReturns == <>(pc = "returned")
=============================================================================
