---------------------------- MODULE KeyTreeRules ----------------------------
(***************************************************************************)
(* KeyTree implements TomlRules: the heap of keys, read as a map from      *)
(* paths to kinds, obeys the rules about paths.                            *)
(***************************************************************************)
EXTENDS KeyTree

KindOf(k) == CASE keys[k].type = "TABLE"      -> "super"
               [] keys[k].type = "TABLELEAF"  -> "table"
               [] keys[k].type = "ARRAYTABLE" -> "array"
               [] keys[k].type = "KEY"        -> "dotted"
               [] keys[k].type = "KEYLEAF"    -> "value"

Node(path, k, kind) == [path |-> path, key |-> k, kind |-> kind]

\* The keys that k itself points to, with their paths from k.
Children(k) ==
    {Node(<<id>>, has_subkey(k, id), KindOf(has_subkey(k, id))) : id \in UsedIds(k)}
    \cup {Node(<<i>>, keys[k].arr[i], "element") : i \in 0 .. keys[k].idx}

\* The container of an open inline table stands for the key it belongs to.
Containers(k) == {open[n].keys : n \in {n \in 1 .. Len(open) : open[n].key = k}}
OwnerOf(k)    == IF \E n \in 1 .. Len(open) : open[n].keys = k
                 THEN open[CHOOSE n \in 1 .. Len(open) : open[n].keys = k].key
                 ELSE k

\* The keys that k points to or, while it is open, its container.
Near(k) == UNION {Children(c) : c \in {k} \cup Containers(k)}

\* Every key reachable from the root, with its path and its kind.
Nodes ==
    LET below[k \in 1 .. MaxKeys] ==
            LET near == Near(k)
            IN  near \cup UNION {{Node(m.path \o n.path, n.key, n.kind) :
                                      n \in below[m.key]} : m \in near}
    IN  {Node(<<>>, Root, "table")} \cup below[Root]

PathOf(k) == (CHOOSE n \in Nodes : n.key = OwnerOf(k)).path

(***************************************************************************)
(* A value is never overwritten, nor moved out of reach: a key that has    *)
(* one is reached from the root, and every step leaves it at its path with *)
(* its value, also the one that moves the pairs of an inline table from    *)
(* their container to another key.  TOML forbids to define a key twice,    *)
(* and the code keeps no old value to compare with.  (Where a key is       *)
(* depends on keys and open only.)                                         *)
(***************************************************************************)
ValuesKept ==
    [][<<keys, open>>' # <<keys, open>> =>
          \A k \in Allocated : keys[k].value # "none" =>
             /\ keys'[k].value = keys[k].value
             /\ \E m \in Nodes : \E n \in Nodes' :
                   m.key = k /\ n.key = k /\ n.path = m.path]_vars

\* The variables of TomlRules.
Kind  == LET nodes == Nodes
         IN  [p \in {n.path : n \in nodes} |-> (CHOOSE n \in nodes : n.path = p).kind]
Phase == IF mode \in {"invalid", "overflow"} THEN "failed" ELSE mode
Base  == PathOf(active)
Place == IF at = NULL THEN <<"nowhere">> ELSE PathOf(at)
Outer == [n \in 1 .. Len(open) |-> PathOf(open[n].key)]

Rules == INSTANCE TomlRules WITH kind <- Kind, phase <- Phase, base <- Base,
                                 at <- Place, open <- Outer

(***************************************************************************)
(* Every step of the key tree is a step the rules about paths allow: what  *)
(* compatible_keys accepts and refuses, through whichever pointers the     *)
(* code reaches a key, is decided by how that path was defined before.     *)
(***************************************************************************)
ObeysTomlRules == Rules!Spec

(***************************************************************************)
(* Closed inline tables and earlier tables of an array never change.       *)
(***************************************************************************)
ClosedSealed == Rules!ClosedSealed
=============================================================================
