-------------------------------- MODULE Memory --------------------------------
(***************************************************************************)
(* Who frees what: the keys and values that parse_keyval, parse_inlinetable, *)
(* parse_array and parse_value allocate, the way delete_value and            *)
(* delete_key follow their pointers, and which of the nested calls deletes   *)
(* what when one of them fails.                                              *)
(*                                                                           *)
(* The heap is an array of objects that are numbered as they are allocated;  *)
(* a pointer is such a number, NULL is 0.  A buffer or a map that is owned   *)
(* by one object only is part of it.  The characters are left out: which     *)
(* value comes next, and where the input is malformed, is a choice.  Keys    *)
(* have one segment, and no header of a table appears: KeyTree has those,    *)
(* and nothing ever frees what they allocate.                                *)
(***************************************************************************)
EXTENDS Integers, SequencesExt, FiniteSetsExt

CONSTANTS MaxArray,         \* TOML_MAX_ARRAY_LENGTH
          MaxObjects        \* bound: how many objects are ever allocated

ASSUME MaxArrayAssumption   == MaxArray \in Nat \ {0}
ASSUME MaxObjectsAssumption == MaxObjects \in Nat \ {0}

VARIABLES objects,          \* the heap: struct toml_key and struct toml_value
          nobjects,         \* how many have been allocated
          stack,            \* the calls that are waiting, parse_keyval first
          mode,             \* what the innermost call does
          ret,              \* the value that parse_value returns
          log               \* the objects that have been freed, in this order

vars == <<objects, nobjects, stack, mode, ret, log>>

NULL == 0
Root == 1

Ids     == 1 .. MaxObjects
Indices == 0 .. MaxArray - 1

(***************************************************************************)
(* Keys and values; data is the pseudo key of an inline table.             *)
(***************************************************************************)
new_key == [is |-> "key", subkeys |-> {}, value |-> NULL]

new_value(type) == [is |-> "value", type |-> type, len |-> 0, data |-> NULL,
                    arr |-> [i \in Indices |-> NULL]]

new         == nobjects + 1
CanAlloc(n) == nobjects + n <= MaxObjects     \* bound

\* A call: its function, the object it fills, and the key that waits for its
\* value.
Call(fun, obj) == [fun |-> fun, obj |-> obj, key |-> NULL]
Top            == Last(stack)
Push(call)     == stack' = Append(stack, call)
Pop            == stack' = Front(stack)

Init == /\ objects = [o \in Ids |-> new_key]
        /\ nobjects = 1
        /\ stack = <<Call("keyval", Root)>>
        /\ mode = "loop" /\ ret = NULL /\ log = <<>>

-----------------------------------------------------------------------------
(***************************************************************************)
(* delete_value: the objects it frees, and whether it has found the NULL   *)
(* behind the elements of every array.  A pointer leads to an object that  *)
(* was allocated later, but for those to arrays from their callers.        *)
(***************************************************************************)
Elements(v) == LET n == Min({i \in Indices : objects[v].arr[i] = NULL} \cup {MaxArray})
               IN  IF objects[v].is = "key" THEN <<>>
                   ELSE [i \in 1 .. n |-> objects[v].arr[i - 1]]
HasEnd(v)   == objects[v].type = "array" => \E i \in Indices : objects[v].arr[i] = NULL

Deleted ==
    LET deleted[v \in Ids] ==
            FlattenSeq([i \in 1 .. Len(Elements(v)) |-> deleted[Elements(v)[i]]])
            \o (IF objects[v].data = NULL THEN <<>> ELSE <<objects[v].data>>)
            \o <<v>>
    IN  deleted

\* A mistake: the elements of an array are forgotten.
delete_value_shallow(v) == <<v>>

delete_value(v) == Deleted[v]

InBounds(v) == \A o \in Range(delete_value(v)) : objects[o].is = "value" => HasEnd(o)

\* delete_key frees the map of subkeys, but not the keys in it.
delete_key(k) == IF objects[k].value = NULL THEN <<k>>
                 ELSE Append(delete_value(objects[k].value), k)

-----------------------------------------------------------------------------
(* Keys and the values they wait for. *)

\* parse_keyval and parse_inlinetable: parse_key, then parse_value.
Pair == /\ mode = "loop" /\ Top.fun \in {"keyval", "inline"}
        /\ CanAlloc(1)
        /\ objects' = [objects EXCEPT ![Top.obj].subkeys = @ \cup {new}, ![new] = new_key]
        /\ nobjects' = new
        /\ stack' = [stack EXCEPT ![Len(stack)].key = new]
        /\ mode' = "value"
        /\ UNCHANGED <<ret, log>>

\* parse_value: a string, number, boolean or date; an array; an inline table.
Scalar == /\ mode = "value" /\ CanAlloc(1)
          /\ objects' = [objects EXCEPT ![new] = new_value("scalar")]
          /\ nobjects' = new
          /\ mode' = "return" /\ ret' = new
          /\ UNCHANGED <<stack, log>>

\* A mistake: the array belongs to its key before its elements are parsed.
OpenArray_linked ==
    /\ mode = "value" /\ CanAlloc(1)
    /\ objects' = LET with == [objects EXCEPT ![new] = new_value("array")]
                  IN  IF Top.key = NULL THEN with ELSE [with EXCEPT ![Top.key].value = new]
    /\ nobjects' = new
    /\ Push(Call("array", new)) /\ mode' = "loop"
    /\ UNCHANGED <<ret, log>>

OpenArray ==
    /\ mode = "value" /\ CanAlloc(1)
    /\ objects' = [objects EXCEPT ![new] = new_value("array")]
    /\ nobjects' = new
    /\ Push(Call("array", new)) /\ mode' = "loop"
    /\ UNCHANGED <<ret, log>>

OpenInline ==
    /\ mode = "value" /\ CanAlloc(1)
    /\ objects' = [objects EXCEPT ![new] = new_key]
    /\ nobjects' = new
    /\ Push(Call("inline", new)) /\ mode' = "loop"
    /\ UNCHANGED <<ret, log>>

\* parse_array: the next element, or the bracket at the end, for which there
\* has to be room as well.
Room(v) == objects[v].len < MaxArray

Element_late == /\ mode = "loop" /\ Top.fun = "array" /\ objects[Top.obj].len <= MaxArray
                /\ mode' = "value"
                /\ UNCHANGED <<objects, nobjects, stack, ret, log>>

Element == /\ mode = "loop" /\ Top.fun = "array" /\ Room(Top.obj)
           /\ mode' = "value"
           /\ UNCHANGED <<objects, nobjects, stack, ret, log>>

CloseArray == /\ mode = "loop" /\ Top.fun = "array" /\ Room(Top.obj)
              /\ Pop /\ mode' = "return" /\ ret' = Top.obj
              /\ UNCHANGED <<objects, nobjects, log>>

\* new_inline_table: a pseudo key with the pairs of the container, which is
\* not freed.
CloseInline ==
    /\ mode = "loop" /\ Top.fun = "inline" /\ CanAlloc(2)
    /\ objects' = [objects EXCEPT
                      ![new]     = [new_value("inline") EXCEPT !.data = new + 1],
                      ![new + 1] = [new_key EXCEPT !.subkeys = objects[Top.obj].subkeys]]
    /\ nobjects' = new + 1
    /\ Pop /\ mode' = "return" /\ ret' = new
    /\ UNCHANGED log

\* What the caller does with the value.  The pairs of an inline table become
\* subkeys of its key, and the value is forgotten.
Take ==
    LET len == objects[Top.obj].len
    IN  /\ mode = "return"
        /\ objects' =
              CASE Top.fun = "array" ->
                      [objects EXCEPT ![Top.obj].arr = [@ EXCEPT ![len] = ret],
                                      ![Top.obj].len = len + 1]
                [] Top.fun # "array" /\ objects[ret].type = "inline" ->
                      [objects EXCEPT ![Top.key].subkeys =
                                         @ \cup objects[objects[ret].data].subkeys]
                [] OTHER -> [objects EXCEPT ![Top.key].value = ret]
        /\ stack' = [stack EXCEPT ![Len(stack)].key = NULL]
        /\ mode' = "loop" /\ ret' = NULL
        /\ UNCHANGED <<nobjects, log>>

-----------------------------------------------------------------------------
(* Failures. *)

Halts(m, frees) == mode' = m /\ log' = log \o frees /\ UNCHANGED <<objects, nobjects, ret>>

\* A mistake: parse_array deletes the array that its caller deletes.
Malformed_both ==
    /\ mode \in {"loop", "value"}
    /\ Halts("failing", IF Top.fun = "array" THEN <<Top.obj>> ELSE <<>>)
    /\ UNCHANGED stack

\* The input is malformed, ends too early or defines a key twice; or an array
\* has got as many elements as there is room for.
Malformed == /\ mode \in {"loop", "value"}
             /\ Halts("failing", <<>>)
             /\ UNCHANGED stack

\* parse_inlinetable leaves its loop at a line end and at the end of the
\* input, and deletes nothing then.
LeftOpen == /\ mode = "loop" /\ Top.fun = "inline"
            /\ Pop
            /\ Halts("failing", <<>>)

\* The innermost call returns NULL: parse_value deletes the array, or
\* parse_inlinetable its container.  Where no NULL is found nobody knows what
\* is deleted.
Unwind ==
    /\ mode = "failing"
    /\ \/ /\ Top.fun = "array" /\ InBounds(Top.obj)
          /\ Pop /\ Halts("failing", delete_value(Top.obj))
       \/ /\ Top.fun = "array" /\ ~InBounds(Top.obj)
          /\ Pop /\ Halts("undefined", <<>>)
       \/ /\ Top.fun = "inline"
          /\ Pop /\ Halts("failing", delete_key(Top.obj))
       \/ /\ Top.fun = "keyval"
          /\ UNCHANGED stack /\ Halts("failed", delete_key(Root))

\* The end of the input, and toml_free.
Finish    == /\ mode = "loop" /\ Top.fun = "keyval"
             /\ UNCHANGED stack /\ Halts("done", <<>>)
toml_free == /\ mode = "done"
             /\ UNCHANGED stack /\ Halts("freed", delete_key(Root))

Stopped == mode \in {"failed", "freed", "undefined"} /\ UNCHANGED vars

Next == \/ Pair \/ Scalar \/ OpenArray \/ OpenInline \/ Element \/ CloseArray
        \/ CloseInline \/ Take \/ Malformed \/ LeftOpen \/ Unwind
        \/ Finish \/ toml_free \/ Stopped

Spec == Init /\ [][Next]_vars
-----------------------------------------------------------------------------
(***************************************************************************)
(* Objects point to objects, and arrays stay within their bounds.          *)
(***************************************************************************)
KeyType   == [is : {"key"}, subkeys : SUBSET Ids, value : 0 .. MaxObjects]
ValueType == [is : {"value"}, type : {"scalar", "array", "inline"}, len : 0 .. MaxArray,
              data : 0 .. MaxObjects, arr : [Indices -> 0 .. MaxObjects]]

TypeOK ==
    /\ \A o \in Ids : objects[o] \in KeyType \/ objects[o] \in ValueType
    /\ nobjects \in Ids /\ ret \in 0 .. nobjects /\ Range(log) \subseteq 1 .. nobjects
    /\ mode \in {"loop", "value", "return", "failing", "done", "failed", "freed", "undefined"}
    /\ \A i \in 1 .. Len(stack) : stack[i].fun \in {"keyval", "array", "inline"}

\* The objects that the running calls can get to, once the root is freed none.
Refs(o) == (IF objects[o].is = "key" THEN objects[o].subkeys \cup {objects[o].value}
            ELSE Range(objects[o].arr) \cup {objects[o].data}) \ {NULL}
Held    == ({ret} \cup UNION {{stack[i].obj, stack[i].key} : i \in 1 .. Len(stack)}) \ {NULL}
Reached(roots) ==
    LET reached[n \in 0 .. MaxObjects] ==
            IF n = 0 THEN roots
            ELSE LET nearer == reached[n - 1]
                 IN  nearer \cup UNION {Refs(o) : o \in nearer}
    IN  reached[MaxObjects]

(***************************************************************************)
(* No object is freed twice, whichever calls have failed around it.        *)
(***************************************************************************)
FreedOnce == Len(log) = Cardinality(Range(log))

(***************************************************************************)
(* While a call may still use it, nothing that it reaches has been freed.  *)
(***************************************************************************)
NothingDangles ==
    mode \notin {"failed", "freed", "undefined"} => Reached(Held) \cap Range(log) = {}

(***************************************************************************)
(* When parse_array fails its array goes with all elements, at any depth:  *)
(* afterwards every value is freed or belongs to a key.  (The value of an  *)
(* inline table is lost as soon as its pairs have been passed on.)         *)
(***************************************************************************)
Values == {o \in 1 .. nobjects : objects[o].is = "value" /\ objects[o].type # "inline"}
Keys   == {o \in 1 .. nobjects : objects[o].is = "key"}

FailedArraysFreed ==
    mode = "failed" => Values \subseteq Range(log) \cup Reached(Keys)

(***************************************************************************)
(* value.h:9: delete_value "frees up all the memory that is associated with  *)
(* value v".  When parse_array has given up because the array is full, there *)
(* is no NULL behind its elements, and delete_value goes on behind arr.      *)
(***************************************************************************)
DeletesWithinArray == mode # "undefined"
=============================================================================
