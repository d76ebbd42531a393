------------------------------ MODULE MCFiles ------------------------------
(***************************************************************************)
(* The instance of Files: the calls of programs, one for each path through *)
(* get_device, vfs_lookup and vfs_open.                                    *)
(***************************************************************************)
EXTENDS Files

CONSTANTS f, d

At(from, name) == [from |-> from, name |-> name]

MCOpens ==
  {[path |-> At("cwd", f),      flags |-> [Plain("RDWR") EXCEPT !.append = TRUE]],
   [path |-> At("/", f),        flags |-> [Plain("RDWR") EXCEPT !.creat = TRUE]],
   [path |-> At(":", f),        flags |-> [Plain("RDWR") EXCEPT !.creat = TRUE, !.excl = TRUE]],
   [path |-> At("disk0", d),    flags |-> Plain("RDONLY")],
   [path |-> At("cwd", ".."),   flags |-> Plain("WRONLY")],
   [path |-> At("cwd", Missing), flags |-> [Plain("RDWR") EXCEPT !.creat = TRUE]],
   [path |-> At(Stdin, ""),     flags |-> Plain("RDONLY")]}

MCWalks == {At("cwd", d), At("cwd", ".."), At("/", f), At(Stdin, Missing)}

Symmetry == Permutations(Proc)

=============================================================================
