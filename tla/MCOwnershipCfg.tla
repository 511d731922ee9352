--------------------------- MODULE MCOwnershipCfg ---------------------------
(***************************************************************************)
(* function r = f(p)                                                       *)
(*    1  t = g(p);                      8  if c                            *)
(*    2  r = p;                         9     r = k(t);      % t dies      *)
(*    3  while cond(p)                 10     if c3: (11) return           *)
(*    4     u = h(t);                     else                             *)
(*    5     if c1: break               12     disp(p);       % p dies      *)
(*    6     if c2: (14) return         13  r = k(r); (14) return           *)
(*   15     r = k(u);                                                      *)
(* with the sets liveness.ts and emitStmt.ts compute for it.               *)
(***************************************************************************)
EXTENDS OwnershipCfg, TLC

CONSTANTS p, r, t, u

MCNodes == (1..15) \ {7}
MCSucc == 1 :> {2} @@ 2 :> {3} @@ 3 :> {4, 8} @@ 4 :> {5} @@ 5 :> {6, 8} @@ 6 :> {14, 15}
          @@ 8 :> {9, 12} @@ 9 :> {10} @@ 10 :> {11, 13} @@ 12 :> {13} @@ 13 :> {14}
          @@ 15 :> {3} @@ [n \in {11, 14} |-> {}]
MCUses == [n \in {1, 2, 3, 12} |-> {p}] @@ [n \in {4, 9} |-> {t}] @@ 15 :> {u} @@ 13 :> {r}
          @@ [n \in MCNodes |-> {}]
MCDefs == 1 :> {t} @@ 4 :> {u} @@ [n \in {2, 9, 13, 15} |-> {r}] @@ [n \in MCNodes |-> {}]
MCTouch == [n \in {1, 2, 3, 4, 5, 6, 15} |-> {p, r, t, u}] @@ 8 :> {p, r, t}
           @@ [n \in MCNodes |-> {r}]
\* The join at 13 keeps what both arms freed: nothing.
MCFreed == [n \in {10, 11} |-> {t}] @@ [n \in MCNodes |-> {}]
=============================================================================
