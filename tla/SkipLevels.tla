----------------------------- MODULE SkipLevels -----------------------------
(***************************************************************************)
(* ZDD::zlev and ZDD::set_zskip of bdd_class.cpp: to descend along lo      *)
(* edges to a level, with entries of the operation cache as shortcuts.     *)
(*                                                                         *)
(* All that matters of a ZDD is the chain of its lo edges, the set of the  *)
(* levels of the nodes on it; a node is its level, and 0 the terminal.  An *)
(* entry of the cache may be overwritten at any time.                      *)
(***************************************************************************)
EXTENDS Integers, FiniteSets, TLC

\* The nodes of a chain below a level, and the node below another.
LastOf(W) == IF W = {} THEN 0 ELSE CHOOSE n \in W : \A m \in W : m <= n
offset(chain, n) == LastOf({m \in chain : m < n})

\* How far an entry reaches from level n.
zlevnum(n) ==
  LET skip == CASE n % 4 = 3 -> (IF n < 16 THEN 4 ELSE IF n < 64 THEN 8
                                 ELSE IF n < 128 THEN 32 ELSE IF n < 256 THEN 64
                                 ELSE IF n < 512 THEN 128 ELSE IF n < 1024 THEN 256 ELSE 512)
                [] n % 4 = 2 -> (IF n < 64 THEN 4 ELSE IF n < 256 THEN 16
                                 ELSE IF n < 512 THEN 32 ELSE IF n < 1024 THEN 64 ELSE 128)
                [] n % 4 = 1 -> (IF n < 16 THEN 4 ELSE IF n < 512 THEN 8
                                 ELSE IF n < 1024 THEN 16 ELSE 32)
                [] OTHER -> (IF n < 1024 THEN 4 ELSE 8)
  IN  n - skip

\* A shortcut that would pass the level, and one that a shortcut one or a few
\* levels lower will beat, is not looked up.
SkipFrom(n, lev) ==
  LET passes == zlevnum(n) < lev
  IN  IF n - lev < 5 \/ passes THEN n - 1
      ELSE IF n >= 66 THEN (IF n % 4 < 3 /\ zlevnum(n - 3) >= lev THEN n - 1 ELSE zlevnum(n))
      ELSE IF n >= 18 THEN (IF n % 2 < 1 /\ zlevnum(n - 1) >= lev THEN n - 1 ELSE zlevnum(n))
      ELSE zlevnum(n)

RECURSIVE Descent(_, _, _, _, _), set_zskip_rec(_, _, _), set_zskip_iter(_, _, _)

\* Mutant: an entry is followed wherever it leads.
DescentUnchecked(chain, skips, lev, n, before) ==
  IF n <= lev THEN [at |-> n, before |-> before]
  ELSE IF SkipFrom(n, lev) < n - 1 /\ n \in DOMAIN skips
  THEN Descent(chain, skips, lev, skips[n], before)
  ELSE Descent(chain, skips, lev, offset(chain, n), n)

\* The node reached from n and the one before it.
Descent(chain, skips, lev, n, before) ==
  IF n <= lev THEN [at |-> n, before |-> before]
  ELSE IF SkipFrom(n, lev) < n - 1 /\ n \in DOMAIN skips /\ skips[n] >= lev
  THEN Descent(chain, skips, lev, skips[n], before)
  ELSE Descent(chain, skips, lev, offset(chain, n), n)

\* From node n of the chain to level lev > 0; with last the result is above
\* the level rather than below.
zlev(chain, skips, n, lev, last) ==
  LET walk == Descent(chain, skips, lev, n, n)
  IN  IF last /\ walk.at # lev THEN walk.before ELSE walk.at

\* The entries of the chain from node n: those of the nodes below first.
\* Those that are there are not made again.
set_zskip_rec(chain, skips, n) ==
  LET below == offset(chain, n)
      done == set_zskip_rec(chain, skips, below)
      reached == zlev(chain, done, n, zlevnum(n), TRUE)
  IN  IF n <= 4 \/ n \in DOMAIN skips THEN skips
      ELSE (n :> IF reached = n THEN below ELSE reached) @@ done

\* The loop looks for the target before it descends.
set_zskip_iter(chain, skips, n) ==
  LET below == offset(chain, n)
      reached == zlev(chain, skips, n, zlevnum(n), TRUE)
  IN  IF n <= 4 \/ n \in DOMAIN skips THEN skips
      ELSE (n :> IF reached = n THEN below ELSE reached) @@ set_zskip_iter(chain, skips, below)
=============================================================================
