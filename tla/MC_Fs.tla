-------------------------------- MODULE MC_Fs --------------------------------
EXTENDS Fs, TLC

\* The names are interchangeable: lookup takes the first valid entry of a
\* slot order that does not depend on the name.
NameSymmetry == Permutations(Names)

\* The scenario of the specification's write test: create a file and write
\* it, with no other handler in between.
WriteOnlyNext ==
    \/ \E p \in NonRoot : Running /\ fs_mknod(p)
    \/ \E p \in NonRoot, o \in Offsets, n \in Lens : Running /\ fs_write(p, o, n)

WriteOnlySpec == Init /\ [][WriteOnlyNext]_vars

\* Only the handlers that create and remove names, for larger instances.
NamespaceNext ==
    \E p \in NonRoot :
        Running /\ (fs_mknod(p) \/ fs_mkdir(p) \/ fs_unlink(p) \/ fs_rmdir(p))

NamespaceSpec == Init /\ [][NamespaceNext]_vars
==============================================================================
