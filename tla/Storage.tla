------------------------------- MODULE Storage -------------------------------
(***************************************************************************)
(* The files of a torrent (crates/engine/src/storage.rs): one space of     *)
(* bytes laid over the files one after the other, so that a piece may      *)
(* reach over the end of a file, and over empty ones.  A byte is named by  *)
(* its place in that space; what a place holds is its own name when the    *)
(* right byte was written there.                                           *)
(***************************************************************************)
EXTENDS FiniteSetsExt, SequencesExt

CONSTANTS
  FileLengths,  \* lengths of the files, in order
  PieceLength   \* Info.piece_length

ASSUME StorageAssumption ==
  /\ FileLengths \in Seq(Nat) /\ FileLengths # <<>>
  /\ PieceLength \in Nat \ {0}

Files == DOMAIN FileLengths

\* FileSlice.offset: the lengths of all files before it.
Offset(f) ==
  LET sum[n \in 0 .. Len(FileLengths)] ==
        IF n = 0 THEN 0 ELSE sum[n - 1] + FileLengths[n]
  IN  sum[f - 1]

TotalLength == Offset(Len(FileLengths)) + FileLengths[Len(FileLengths)]

NumPieces == (TotalLength + PieceLength - 1) \div PieceLength

Pieces == 0 .. NumPieces - 1

Start(p) == p * PieceLength

\* The last piece is shorter; past the end there is nothing.
PieceLen(p) == Max({0, Min({TotalLength - Start(p), PieceLength})})

Unset == -1

\* Contents of files that hold the right bytes of a set of pieces only.
Holding(S) ==
  [f \in Files |-> [i \in 0 .. FileLengths[f] - 1 |->
     IF (Offset(f) + i) \div PieceLength \in S THEN Offset(f) + i ELSE Unset]]

Piece(p) == [i \in 1 .. PieceLen(p) |-> Start(p) + i - 1]

\* The bytes of [start, start + length) that lie in file f.
Slice(f, start, length) ==
  {g \in start .. start + length - 1 : Offset(f) <= g /\ g < Offset(f) + FileLengths[f]}

\* write_piece, slice by slice.
WritePiece(files, p, data) ==
  [f \in Files |-> [i \in DOMAIN files[f] |->
     IF Offset(f) + i \in Slice(f, Start(p), Len(data))
     THEN data[Offset(f) + i - Start(p) + 1]
     ELSE files[f][i]]]

\* Mutant: the place in the range is taken for the place in the file.
PlaceInRange(f, g, start) == Min({g - start, FileLengths[f] - 1})

\* Where byte g of a range is read in file f.
Place(f, g, start) == g - Offset(f)

\* read_range: what no file covers stays zero.
ReadRange(files, start, length) ==
  [i \in 1 .. length |->
     LET g == start + i - 1
         F == {f \in Files : g \in Slice(f, start, length)}
     IN  IF F = {} THEN Unset ELSE LET f == Max(F) IN files[f][Place(f, g, start)]]

InPiece(p, begin, length) == length > 0 /\ begin + length <= PieceLen(p)

\* read_block; <<>> stands for the error.
ReadBlock(files, p, begin, length) ==
  IF InPiece(p, begin, length) THEN ReadRange(files, Start(p) + begin, length) ELSE <<>>
=============================================================================
