----------------------------- MODULE ByteFiles -----------------------------
(***************************************************************************)
(* What a file system promises: a file is a sequence of bytes, a write     *)
(* replaces or appends bytes and fills a gap with zeros, and the length    *)
(* can be set.                                                             *)
(***************************************************************************)
EXTENDS Integers, Sequences

CONSTANTS
  File,
  Byte,       (* the bytes that are written                                *)
  MaxLen      (* the longest file                                          *)

VARIABLE content

(* The sequence s with length n, cut or filled up with zeros.              *)
Resized(s, n) == [k \in 1..n |-> IF k <= Len(s) THEN s[k] ELSE 0]

(* n bytes v at offset off.                                                *)
Written(s, off, n, v) ==
  LET t == Resized(s, IF off + n > Len(s) THEN off + n ELSE Len(s))
  IN  [k \in DOMAIN t |-> IF k > off /\ k <= off + n THEN v ELSE t[k]]

Init == content = [f \in File |-> <<>>]

Write(f, off, n, v) ==
  content' = [content EXCEPT ![f] = Written(@, off, n, v)]

SetLen(f, n) == content' = [content EXCEPT ![f] = Resized(@, n)]

Next ==
  \E f \in File :
    \/ \E off \in 0..MaxLen, v \in Byte :
         \E n \in 1..(MaxLen - off) : Write(f, off, n, v)
    \/ \E n \in 0..MaxLen : SetLen(f, n)

Spec == Init /\ [][Next]_content

=============================================================================
