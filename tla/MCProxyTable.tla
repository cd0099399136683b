----------------------------- MODULE MCProxyTable -----------------------------
(***************************************************************************)
(* A small instance of ProxyTable.  Threads, proxies and objects are alike *)
(* (the table is indexed by handles), so all three are symmetric.          *)
(***************************************************************************)
EXTENDS ProxyTable, TLC

Symmetry == Permutations(Thread) \cup Permutations(Proxy) \cup Permutations(Node)
=============================================================================
