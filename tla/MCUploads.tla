------------------------------ MODULE MCUploads ------------------------------
(* Instances of Uploads for TLC. *)
EXTENDS Uploads, TLC

CONSTANTS a, b, blank, big, u1, u2, w1

Of(kind, files) == [kind |-> kind, files |-> files]
UploadPaths == Calls \X (1..MaxFiles)
NoMembership == [u \in Users |-> {}]
\* u1 administers w1 without being a member; u2 is a member.
OneMember == [u \in Users |-> IF u = u2 THEN {w1} ELSE {}]
AnyArchive ==
  {Of("zip", <<a, b>>), Of("zip", <<blank>>), Of("zip", <<big>>), Of("zip", <<>>),
   Of("broken", <<a>>), Of("misnamed", <<a>>), Of("large", <<>>), Of("declaredLarge", <<>>)}
OneFile == {Of("zip", <<a>>), Of("zip", <<>>), Of("zip", <<big>>), Of("declaredLarge", <<>>)}
OnlyA == {Of("zip", <<a>>)}
Requests == Permutations(Calls)
=============================================================================
