---- MODULE MCCatalogue ----
EXTENDS Catalogue, TLC
MCVIds  == 1..3
MCCIds  == 1..2
R(vid, name, old, work) == [vid |-> vid, name |-> name, old |-> old, work |-> work]
\* Uploads that reach every branch of the matching: an old id another row has,
\* an old id given up and named again, a name that hides an old id, new rows.
MCBatches == {
  <<R(2, None, "o1", None)>>,
  <<R(1, "n2", "o3", None), R(None, "n3", "o1", None)>>,
  <<R(None, "n3", "o3", "w2"), R(None, "n2", "o2", None)>> }
V(name, old, work) == [name |-> name, old |-> old, work |-> work, image |-> None]
MCSeeds == {(1 :> V("n1", "o1", "w1")) @@ (2 :> V("n2", None, None)) @@ (3 :> None)}
====
