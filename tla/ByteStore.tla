----------------------------- MODULE ByteStore -----------------------------
(***************************************************************************)
(* What the FUSE file system promises of the bytes of its files, as long   *)
(* as no call is damaged: a file has the size it was last given, which a   *)
(* write only ever raises, as far as it needs; bytes that were never       *)
(* written are 0, and a write sets its own bytes and no others.  A call    *)
(* can also fail and change nothing.  After Damage nothing is promised of  *)
(* any file.                                                               *)
(***************************************************************************)
EXTENDS Naturals, Sequences

CONSTANTS Name, Bytes, Offset, Absent, Unknown

VARIABLE files  \* the bytes of every name

Init == files = [n \in Name |-> Absent]

Sized(f, size) == [k \in 1 .. size |-> IF k <= Len(f) THEN f[k] ELSE 0]

\* What a call may make of the file f of the name it is given: g
Create(f, g) == f = Absent /\ g = <<>>

Truncate(f, g) == \E size \in Offset : g = Sized(f, size)

Write(f, g) == \E offset \in Offset, bytes \in Bytes :
    LET end == offset + Len(bytes)
        to  == IF end > Len(f) THEN end ELSE Len(f)
    IN  g = [k \in 1 .. to |->
                IF k \in offset + 1 .. end THEN bytes[k - offset] ELSE Sized(f, to)[k]]

Call(n) ==
    /\ \A m \in Name \ {n} : files'[m] = files[m]
    /\ DOMAIN files' = Name
    /\ LET f == files[n]  g == files'[n] IN
         \/ Create(f, g)
         \/ f \notin {Absent, Unknown} /\ (Truncate(f, g) \/ Write(f, g))

Damage == files' = [n \in Name |-> Unknown]

Next == Damage \/ \E n \in Name : Call(n)

Spec == Init /\ [][Next]_files
=============================================================================
