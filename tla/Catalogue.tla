------------------------------ MODULE Catalogue ------------------------------
(***************************************************************************)
(* What the spider promises to the readers of the database (the web        *)
(* interface, sqlscan): a share is either not listed, or listed with       *)
(* nothing, or listed with exactly what one complete scan of it saw; and   *)
(* the listing only ever moves on to the result of a later scan.           *)
(***************************************************************************)
EXTENDS Naturals, Sequences

CONSTANTS Shares,   \* the shares the servers offer: (protocol, host, port)
          Listing,  \* what a complete scan of a share can see
          Nothing,  \* the catalogue of a share that was never scanned
          Absent    \* the share has no row in the database

VARIABLES catalogue,  \* what a reader finds for every share
          seen,       \* seen[s]: the results of the complete scans of s, in order
          upto        \* the catalogue of s is the result of scan upto[s], 0: none

catVars == <<catalogue, seen, upto>>

CatInit == /\ catalogue = [s \in Shares |-> Absent]
           /\ seen = [s \in Shares |-> <<>>]
           /\ upto = [s \in Shares |-> 0]

(* A share enters the catalogue, with nothing in it. *)
Add(s) == /\ catalogue[s] = Absent
          /\ catalogue' = [catalogue EXCEPT ![s] = Nothing]
          /\ UNCHANGED <<seen, upto>>

(* Shares leave the catalogue; what was seen of them is forgotten. *)
Remove(V) == /\ \A s \in V : catalogue[s] # Absent
             /\ catalogue' = [s \in Shares |-> IF s \in V THEN Absent ELSE catalogue[s]]
             /\ seen' = [s \in Shares |-> IF s \in V THEN <<>> ELSE seen[s]]
             /\ upto' = [s \in Shares |-> IF s \in V THEN 0 ELSE upto[s]]

(* A scan of a listed share completes; nothing of it is visible yet. *)
Observe(s, l) == /\ catalogue[s] # Absent
                 /\ seen' = [seen EXCEPT ![s] = Append(@, l)]
                 /\ UNCHANGED <<catalogue, upto>>

(* The catalogue of s becomes the result of scan i, all at once. *)
Publish(s, i) == /\ i > upto[s]
                 /\ i <= Len(seen[s])
                 /\ catalogue' = [catalogue EXCEPT ![s] = seen[s][i]]
                 /\ upto' = [upto EXCEPT ![s] = i]
                 /\ UNCHANGED seen

CatNext == \/ \E s \in Shares : \/ Add(s)
                                \/ \E l \in Listing : Observe(s, l)
                                \/ \E i \in 1..Len(seen[s]) : Publish(s, i)
           \/ \E V \in SUBSET Shares : Remove(V)

CatSpec == CatInit /\ [][CatNext]_catVars
==============================================================================
