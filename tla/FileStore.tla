----------------------------- MODULE FileStore -----------------------------
(***************************************************************************)
(* What import, export and rm promise: a name holds the file that was      *)
(* imported under it until it is removed, and an export is that file; it   *)
(* replaces the beginning of a file of the host that is longer.  The       *)
(* promise has one exception, the import of an empty file: what it holds   *)
(* is Rubbish, and it may spoil one other file.                            *)
(***************************************************************************)
EXTENDS Naturals, Sequences

CONSTANTS Name, File, Absent, Rubbish

VARIABLES files,  \* what each name holds
          out     \* the file of the host that an export has just written

vars == <<files, out>>

Init == files = [n \in Name |-> Absent] /\ out = <<>>

Import(n, f) ==
    /\ f # <<>> /\ files[n] = Absent
    /\ files' = [files EXCEPT ![n] = f]
    /\ out' = <<>>

ImportEmpty(n) ==
    /\ files[n] = Absent /\ files'[n] = Rubbish
    /\ \E m \in Name : \A k \in Name \ {n, m} : files'[k] = files[k]
    /\ DOMAIN files' = Name
    /\ out' = <<>>

Rm(n) == files' = [files EXCEPT ![n] = Absent] /\ out' = <<>>

Export(n, old) ==
    /\ files[n] \notin {Absent, Rubbish}
    /\ out' = files[n] \o SubSeq(old, Len(files[n]) + 1, Len(old))
    /\ files' = files

ExportEmpty(n) == files[n] = Rubbish /\ files' = files

\* A command that fails, and the end of the program
Nothing == files' = files /\ out' = <<>>

Next ==
    \/ \E n \in Name : \/ \E f \in File : Import(n, f) \/ Export(n, f)
                      \/ ImportEmpty(n) \/ ExportEmpty(n) \/ Rm(n)
    \/ Nothing

Spec == Init /\ [][Next]_vars
=============================================================================
