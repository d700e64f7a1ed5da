------------------------------- MODULE Storage -------------------------------
(***************************************************************************)
(* services/storage.py: the attachment volume.  A path is the content hash  *)
(* and the extension.  write_bytes opens the file, which truncates it, and  *)
(* writes its bytes in chunks; every writer of a path writes the same       *)
(* bytes.                                                                   *)
(***************************************************************************)
EXTENDS Naturals

CONSTANTS
    Paths,    \* the <<sha256, extension>> pairs
    Writers,
    Chunks    \* a whole file (a bound)

ASSUME ChunksAssumption == Chunks \in Nat \ {0}

VARIABLES
    file,     \* file[p]: the chunks on disk, for the paths that exist
    writing,  \* writing[w]: the path w has open and the chunk it is at; <<>>: none
    cutShort  \* the paths whose last write to end was interrupted

fileVars == <<file, writing, cutShort>>

StorageTypeOK ==
    /\ DOMAIN file \subseteq Paths
    /\ \A p \in DOMAIN file : file[p] \subseteq 1..Chunks
    /\ writing \in [Writers -> {<<>>} \cup (Paths \X (1..Chunks))]
    /\ cutShort \subseteq Paths

StorageInit ==
    /\ file = <<>>
    /\ writing = [w \in Writers |-> <<>>]
    /\ cutShort = {}

(* Mutant: the hash alone is looked up. *)
ExistsAnyType(p) == \E q \in DOMAIN file : q[1] = p[1]

Exists(p) == p \in DOMAIN file

Whole(p) == p \in DOMAIN file /\ file[p] = 1..Chunks

BeingWritten(p) == \E w \in Writers : writing[w] # <<>> /\ writing[w][1] = p

Open(w, p) ==
    /\ writing[w] = <<>>
    /\ file' = [q \in DOMAIN file \cup {p} |-> IF q = p THEN {} ELSE file[q]]
    /\ writing' = [writing EXCEPT ![w] = <<p, 1>>]
    /\ UNCHANGED cutShort

WritesLast(w) == writing[w] # <<>> /\ writing[w][2] = Chunks

Write(w) ==
    LET p == writing[w][1]
        n == writing[w][2]
    IN  /\ writing[w] # <<>>
        /\ file' = [file EXCEPT ![p] = @ \cup {n}]
        /\ writing' = [writing EXCEPT ![w] = IF n = Chunks THEN <<>> ELSE <<p, n + 1>>]
        /\ cutShort' = IF file'[p] = 1..Chunks THEN cutShort \ {p} ELSE cutShort

(* The writer dies, or the disk is full. *)
Abort(w) ==
    /\ writing' = [writing EXCEPT ![w] = <<>>]
    /\ cutShort' = IF writing[w] = <<>> THEN cutShort ELSE cutShort \cup {writing[w][1]}
    /\ UNCHANGED file
=============================================================================
