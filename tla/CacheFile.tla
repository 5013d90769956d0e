----------------------------- MODULE CacheFile -----------------------------
(***************************************************************************)
(* What src/src/storage.rs promises its readers: the cache file is missing *)
(* or shows one complete version, it changes by a whole version at a time, *)
(* and a version leaves it for good once replaced or deleted.              *)
(***************************************************************************)
CONSTANT Versions, Missing    \* Missing: there is no file

VARIABLES content,    \* the version readers see, or Missing
          complete,   \* the versions written out in full
          retired     \* the versions that were visible and no longer are

vars == <<content, complete, retired>>

Init == content = Missing /\ complete = {} /\ retired = {}

Finish(v) ==
  /\ complete' = complete \cup {v}
  /\ UNCHANGED <<content, retired>>

Retire == retired' = IF content = Missing THEN retired ELSE retired \cup {content}

Publish(v) ==
  /\ v \in complete /\ v \notin retired /\ v # content
  /\ content' = v
  /\ Retire
  /\ UNCHANGED complete

Remove ==
  /\ content' = Missing
  /\ Retire
  /\ UNCHANGED complete

Next == Remove \/ \E v \in Versions : Finish(v) \/ Publish(v)

Spec == Init /\ [][Next]_vars
=============================================================================
