-------------------------------- MODULE Maps --------------------------------
(***************************************************************************)
(* What the hash maps of src/hashmap.c promise: each is a partial function *)
(* from keys to data, and what is done to one is not seen in another.      *)
(***************************************************************************)
CONSTANTS Handles,    \* pointers to maps
          Keys, Data, \* data is what the callers' void * points to
          Types       \* the map type_env_init fills: from type names to data

VARIABLES maps,       \* of every map there is, what a search finds for a key
          status      \* running, exit1 (a message) or crash
vars == <<maps, status>>

Made(m)    == m \in DOMAIN maps
MadeNow(m) == m \in DOMAIN maps'
Update(f, g) == [k \in DOMAIN f \cup DOMAIN g |-> IF k \in DOMAIN g THEN g[k] ELSE f[k]]

Init ==
    /\ maps = [h \in {} |-> {}]
    /\ status = "running"

(* What is done to m is not seen in another map.                           *)
OnlyOn(m) ==
    /\ \A h \in Handles \ {m} : MadeNow(h) = Made(h) /\ (Made(h) => maps'[h] = maps[h])
    /\ UNCHANGED status

New(m)   == ~Made(m) /\ MadeNow(m) /\ DOMAIN maps'[m] = {}
Clone(m) == ~Made(m) /\ MadeNow(m) /\ \E h \in DOMAIN maps : maps'[m] = maps[h]
Free(m)  == Made(m) /\ ~MadeNow(m)
Add(m)   == /\ Made(m) /\ MadeNow(m)
            /\ \E k \in Keys, d \in Data : maps'[m] = Update(maps[m], [x \in {k} |-> d])
Fill(m)  == Made(m) /\ MadeNow(m) /\ maps'[m] = Update(maps[m], Types)

Use(m) == OnlyOn(m) /\ (New(m) \/ Clone(m) \/ Free(m) \/ Add(m) \/ Fill(m))

(* There is no memory left.                                                *)
GiveUp == status' \in {"exit1", "crash"} /\ UNCHANGED maps

Next == status = "running" /\ (GiveUp \/ \E m \in Handles : Use(m))

Spec == Init /\ [][Next]_vars

=============================================================================
