----------------------------- MODULE Namespace -----------------------------
(***************************************************************************)
(* What fs/operations.h promises of the names of files, whichever threads  *)
(* call it at the same time: a name leads to one file or to none; a new    *)
(* file appears together with its first name, a hard link is a further     *)
(* name of a file that has one, and a file goes only after its last name.  *)
(* Each of these is one instant of a call.                                 *)
(***************************************************************************)
CONSTANTS
    Names,  \* the names that the directory may hold
    Files,  \* the files there can be, plain files and symbolic links
    NONE    \* what a name without a file leads to

VARIABLES
    bound,  \* bound[n]: the file that n leads to, or NONE
    made    \* the files that exist

vars == <<bound, made>>

Named(f) == \E n \in Names : bound[n] = f

Init ==
    /\ bound = [n \in Names |-> NONE]
    /\ made = {}

\* tfs_open with TFS_O_CREAT, tfs_copy_from_external_fs, tfs_sym_link
Create(n, f) ==
    /\ bound[n] = NONE
    /\ f \notin made
    /\ bound' = [bound EXCEPT ![n] = f]
    /\ made' = made \cup {f}

\* tfs_link
Link(n, f) ==
    /\ bound[n] = NONE
    /\ f \in made /\ Named(f)
    /\ bound' = [bound EXCEPT ![n] = f]
    /\ UNCHANGED made

\* tfs_unlink, and tfs_link when it finds that the file is a symbolic link
Unlink(n) ==
    /\ bound[n] # NONE
    /\ bound' = [bound EXCEPT ![n] = NONE]
    /\ UNCHANGED made

\* tfs_unlink or the last tfs_close
Delete(f) ==
    /\ f \in made /\ ~Named(f)
    /\ made' = made \ {f}
    /\ UNCHANGED bound

\* tfs_destroy and tfs_init
Restart ==
    /\ bound' = [n \in Names |-> NONE]
    /\ made' = {}

Next ==
    \/ \E n \in Names, f \in Files : Create(n, f) \/ Link(n, f)
    \/ \E n \in Names : Unlink(n)
    \/ \E f \in Files : Delete(f)
    \/ Restart

Spec == Init /\ [][Next]_vars
=============================================================================
