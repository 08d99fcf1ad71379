---------------------------- MODULE MCMemAccess ----------------------------
(* An instance of MemAccess: two frames of memory and one without, accesses *)
(* of one word and of a half of it, and one across the end of the page.     *)
EXTENDS MemAccess

MCRanges == {<<0, 8>>, <<4, 4>>, <<4094, 4>>}
MCPCs == {0, 4094}
MCMemory == {0, 1}

\* Every set of permissions on a frame of memory, with D where it matters,
\* and the full one elsewhere.
MCLeaves == {e \in [R : BOOLEAN, W : BOOLEAN, X : BOOLEAN, U : BOOLEAN,
                    A : BOOLEAN, D : BOOLEAN, frame : 0 .. 2] :
                /\ e.W => e.R
                /\ e.R \/ e.X
                /\ e.W \/ e.D
                /\ e.frame = 1 \/ (e.R /\ e.W /\ e.X /\ e.A /\ e.D)}

\* mpp matters only with mprv, and sum and mxr only where something is translated.
MCEnvs == {v \in Env : /\ v.mprv \/ v.mpp = U
                       /\ v.sum \/ v.mxr => v.paged /\ (v.mode = M => v.mprv)}
=============================================================================
