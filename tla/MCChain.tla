------------------------------ MODULE MCChain ------------------------------
(* Small chains and tokens, with certs and licences that end within the run. *)
EXTENDS Offline

KeySet == {"master", "stray", "sub", "proj", "day"}
OneMaster == {"master"}

Cert(signer, key, iat, exp, pid) ==
  [signer |-> signer, key |-> key, form |-> "sound", iat |-> iat, nbf |-> Absent,
   exp |-> exp, pid |-> pid]

Chain(m, s, subEnd, projEnd, pid, dayStart, dayEnd) ==
  [submaster |-> Cert(m, "sub", 1, subEnd, Absent),
   project |-> Cert(s, "proj", 1, projEnd, pid),
   daily |-> Cert("proj", "day", dayStart, dayEnd, Absent)]

ByAnyone ==
  {Chain(m, s, subEnd, projEnd, pid, dayStart, dayEnd) :
     m \in {"master", "stray"}, s \in {"sub", "stray"},
     subEnd \in {Absent, 4, 7}, projEnd \in {Absent, 4, 7}, pid \in {Absent, 1},
     dayStart \in {1, 2}, dayEnd \in {2, 3, Absent}}
Trusted == {Chain("master", "sub", Absent, Absent, Absent, 1, 3)}

\* A few tokens in both formats, and every small licence in the first format.
BothFormats ==
  [signer : {"day"}, form : {"sound"}, iat : {Absent, 1, 2, 3}, exp : {2, 5, 6},
   lex : {Absent, 5}, grc : {Absent, 2, 4, 9}, pid : {1, 2}, machine : {"this"}]
SmallLicences ==
  [signer : {"day"}, form : {"sound"}, iat : 0 .. 4, exp : 0 .. 9, lex : {Absent},
   grc : 0 .. 8, pid : {1}, machine : {"this", "other"}]

\* The clock runs past all the deadlines.
SmallPairs == (ByAnyone \X BothFormats) \cup (Trusted \X SmallLicences)
=============================================================================
