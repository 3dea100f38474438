---------------------------- MODULE Versionstamp ----------------------------
(***************************************************************************)
(* FoundationDB versionstamps as the rooms database uses them              *)
(* (src/internal/types/version.go, src/internal/util/database.go).         *)
(*                                                                         *)
(* A versionstamp is the pair <<commit, user>>: the store-assigned commit  *)
(* version of the transaction (an integer here, 1, 2, ... in commit order) *)
(* and the caller-chosen 16-bit user version.  Versionstamps compare       *)
(* lexicographically, which is what comparing their packed bytes does.     *)
(***************************************************************************)
EXTENDS Integers

\* The user version is a uint16.
UserVersionModulus == 2^16

\* The versionstamps a transaction can be given: a commit version and a
\* uint16 user version.
UserVersion == 0 .. (UserVersionModulus - 1)
Version == Nat \X UserVersion

\* types.ZeroVersionstamp: the all-zero versionstamp, used as "no version".
ZeroVersionstamp == <<0, 0>>

\* Mutant: the ttv user version as MaxUint16 + 1, past the uint16 range.
TtvUserVersionOverflow == UserVersionModulus

\* The user version DoWriteTransaction gives the ttv entry of every write
\* transaction: math.MaxUint16 - 1, after anything the caller stamped.
TtvUserVersion == UserVersionModulus - 2

\* bytes.Compare(a.Bytes(), b.Bytes()) < 0 in SortVersioners.
VersionLess(a, b) ==
    \/ a[1] < b[1]
    \/ a[1] = b[1] /\ a[2] < b[2]

VersionLeq(a, b) == VersionLess(a, b) \/ a = b

\* Mutant: the from bump left out, so the range starts at the cursor.
BumpUserVersionDropped(v) == v

\* options.From.UserVersion += 1 in syncRoomEvents, with uint16 wrap-around.
BumpUserVersion(v) == <<v[1], (v[2] + 1) % UserVersionModulus>>

\* Membership of version v in types.GetVersionRange(sub, from, to): a zero
\* "from" starts just after the prefix, a zero "to" ends just before its end;
\* otherwise the range is [from, to), FDB ranges being end-exclusive.
InVersionRange(v, from, to) ==
    /\ from = ZeroVersionstamp \/ VersionLeq(from, v)
    /\ to = ZeroVersionstamp \/ VersionLess(v, to)

=============================================================================
