------------------------------- MODULE Artifacts -------------------------------
(***************************************************************************)
(* Artifacts on their way through files (artifact.rs, prior/ctm.rs): a     *)
(* value is written, the file may be damaged or handed to the wrong        *)
(* reader, it is read, and what was read is written again.                 *)
(***************************************************************************)
EXTENDS ArtifactReader

CONSTANTS
  Values,       \* values by kind; their fields are public, so that some are not valid
  CtmTables     \* files that load_canonical_b9 may be given

VARIABLES
  kind,      \* what the file, or the value in hand, is taken for
  value,     \* the last value written or read
  file,      \* the last file
  damage,    \* what has happened to it; one thing at most
  status     \* a value in hand, a file to be read, or how the last call ended

vars == <<kind, value, file, damage, status>>

Kinds == {"scheme", "prior", "lexicon", "neighborhood", "ctm"}

Init ==
  /\ \/ /\ kind \in DOMAIN Values
        /\ value \in Values[kind]
        /\ file = <<>>
        /\ status = "new"
     \/ /\ kind = "ctm"
        /\ value = None
        /\ file \in CtmTables
        /\ status = "supplied"
  /\ damage = "none"

\* An encode_ function.
Write ==
  /\ status \in {"new", "read"}
  /\ status' = IF IsWritable(kind, value) THEN "written" ELSE "refused"
  /\ file' = IF IsWritable(kind, value) THEN Encoded(kind, value) ELSE file
  /\ UNCHANGED <<kind, value, damage>>

\* A decode_ function, or load_canonical_b9, which leaves a prior.
Read ==
  /\ status \in {"written", "supplied", "damaged"}
  /\ LET r == Decoded(kind, file) IN
     IF r.error # "none"
     THEN status' = r.error /\ UNCHANGED <<kind, value>>
     ELSE /\ status' = "read"
          /\ kind' = IF kind = "ctm" THEN "prior" ELSE kind
          /\ value' = IF kind = "ctm" THEN CtmPrior(r.value.rows) ELSE r.value
  /\ UNCHANGED <<file, damage>>

-----------------------------------------------------------------------------
(* What may happen to a file.                                              *)

Damage(what) ==
  /\ status \in {"written", "supplied"}
  /\ damage = "none"
  /\ damage' = what
  /\ status' = "damaged"
  /\ UNCHANGED value

Cut ==
  /\ Damage("cut")
  /\ \E n \in 0..(Len(file) - 1) : file' = SubSeq(file, 1, n)
  /\ UNCHANGED kind

Extend ==
  /\ Damage("extended")
  /\ \E byte \in 0..(ByteBase - 1) : file' = Append(file, byte)
  /\ UNCHANGED kind

Change ==
  /\ Damage("changed")
  /\ \E i \in DOMAIN file : \E byte \in (0..(ByteBase - 1)) \ {file[i]} :
       file' = [file EXCEPT ![i] = byte]
  /\ UNCHANGED kind

Mistake ==
  /\ Damage("mistaken")
  /\ kind' \in Kinds \ {kind}
  /\ UNCHANGED file

Next == Write \/ Read \/ Cut \/ Extend \/ Change \/ Mistake

Spec == Init /\ [][Next]_vars

-----------------------------------------------------------------------------
(* Properties.                                                             *)

\* What an encode_ function accepts, the decode_ function gives back: the writer and the
\* reader agree on every token, and the writer refuses what the reader would.
RoundTrip ==
  [][status = "written" /\ damage' = damage => status' = "read" /\ value' = value]_vars

\* There is one file for every value: whatever a reader accepts, changed bytes included, is
\* valid and is written again as the bytes it was read from.  A table of pairs has many
\* forms, but the prior made of it can be written.
OneEncoding ==
  [][status = "read" =>
       /\ status' = "written"
       /\ IsPrefix(Magic(kind), file) => file' = file]_vars

\* A file cut anywhere, one that goes on, and one of another kind are refused, and for
\* that reason, before anything is made of them.
FaultsNamed ==
  [][status = "damaged" =>
       /\ damage = "cut" => status' = "Truncated"
       /\ damage = "extended" => status' = "TrailingBytes"
       /\ damage = "mistaken" => status' = WrongMagic(kind)]_vars
=============================================================================
