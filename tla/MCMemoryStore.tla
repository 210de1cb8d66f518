---------------------------- MODULE MCMemoryStore ----------------------------
(* MemoryStore on a small instance.                                         *)
EXTENDS MemoryStore

\* A credential may have ended when it is added, and may outlive others that are
\* added after it.
MCLifetimes == {-1, 0, 2}
=============================================================================
