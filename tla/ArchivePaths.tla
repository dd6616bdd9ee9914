---------------------------- MODULE ArchivePaths ----------------------------
(***************************************************************************)
(* The names of archive entries: zupt_path_is_safe,                        *)
(* zupt_normalize_archive_path and zupt_validate_archive_destinations      *)
(* (zupt_format.c).  A path is a sequence of character codes, because      *)
(* strcmp's order of the codes matters.                                    *)
(***************************************************************************)
EXTENDS Integers, SequencesExt

Slash == 47      \* '/'
Backslash == 92  \* '\'
Dot == 46        \* '.'
Colon == 58      \* ':'
Space == 32      \* ' '

IsSeparator(c) == c \in {Slash, Backslash}
IsControl(c) == c < 32 \/ c = 127

Lower(c) == IF c \in 65 .. 90 THEN c + 32 ELSE c
Upper(c) == IF c \in 97 .. 122 THEN c - 32 ELSE c

\* Mutant: the case of letters is kept although the caller asked to fold it.
NormalizeNoFold(path, fold) ==
  FoldLeft(LAMBDA key, c :
             IF ~IsSeparator(c) THEN Append(key, c)
             ELSE IF key # <<>> /\ Last(key) = Slash THEN key
             ELSE Append(key, Slash),
           <<>>, path)

\* zupt_normalize_archive_path: one '/' for every run of separators, and
\* letters folded if the caller asks for it.
Normalize(path, fold) ==
  FoldLeft(LAMBDA key, c :
             IF ~IsSeparator(c) THEN Append(key, IF fold THEN Lower(c) ELSE c)
             ELSE IF key # <<>> /\ Last(key) = Slash THEN key
             ELSE Append(key, Slash),
           <<>>, path)

\* The parts of a path between separators.
PathComponents(path) ==
  FoldLeft(LAMBDA parts, c :
             IF IsSeparator(c) THEN Append(parts, <<>>)
             ELSE [parts EXCEPT ![Len(parts)] = Append(@, c)],
           << <<>> >>, path)

CON == <<67, 79, 78>>
PRN == <<80, 82, 78>>
AUX == <<65, 85, 88>>
NUL == <<78, 85, 76>>
COM == <<67, 79, 77>>
LPT == <<76, 80, 84>>

\* zupt_is_reserved_dos_name: the part before the first dot names a device.
ReservedDosName(component) ==
  LET base == FoldLeft(LAMBDA acc, c :
                         IF acc.done \/ c = Dot THEN [acc EXCEPT !.done = TRUE]
                         ELSE [acc EXCEPT !.name = Append(@, Upper(c))],
                       [name |-> <<>>, done |-> FALSE], component).name
  IN  \/ base \in {CON, PRN, AUX, NUL}
      \/ /\ Len(base) = 4
         /\ SubSeq(base, 1, 3) \in {COM, LPT}
         /\ base[4] \in 49 .. 57

SafeComponent(component) ==
  /\ component \notin {<<Dot>>, <<Dot, Dot>>}
  /\ Last(component) \notin {Dot, Space}
  /\ ~ReservedDosName(component)

\* zupt_path_is_safe: relative, portable, and never up.
PathIsSafe(path) ==
  /\ path # <<>>
  /\ \A i \in DOMAIN path : ~IsControl(path[i]) /\ path[i] # Colon
  /\ ~IsSeparator(path[1])
  /\ Last(PathComponents(path)) # <<>>
  /\ \A i \in DOMAIN PathComponents(path) :
       PathComponents(path)[i] # <<>> => SafeComponent(PathComponents(path)[i])

-----------------------------------------------------------------------------
\* strcmp.
PathLess(a, b) ==
  LET shared == IF Len(a) < Len(b) THEN Len(a) ELSE Len(b)
      differ == {i \in 1 .. shared : a[i] # b[i]}
  IN  IF differ = {} THEN Len(a) < Len(b)
      ELSE LET i == CHOOSE i \in differ : \A j \in differ : i <= j
           IN  a[i] < b[i]

\* Two keys name one file, or one of them a directory of the other.
CollidesWith(key, other) ==
  \/ key = other
  \/ Len(key) < Len(other) /\ IsPrefix(key, other) /\ other[Len(key) + 1] = Slash

DestinationKeys(paths) == [i \in DOMAIN paths |-> Normalize(paths[i], TRUE)]

\* zupt_validate_archive_destinations (its POSIX part): sort the keys and
\* compare each with the one before it.
ValidDestinations(paths, requireSafe) ==
  LET sorted == SortSeq(DestinationKeys(paths), PathLess)
  IN  /\ requireSafe => \A i \in DOMAIN paths : PathIsSafe(paths[i])
      /\ \A i \in 2 .. Len(paths) : ~CollidesWith(sorted[i - 1], sorted[i])

-----------------------------------------------------------------------------

\* Where the entry of a path comes out on a file system that does not tell the
\* cases of letters apart: directories, and the file in the last of them.
Place(path) ==
  SelectSeq(PathComponents([i \in DOMAIN path |-> Lower(path[i])]), LAMBDA part : part # <<>>)

\* PROPERTY: the entries of an accepted archive come out below the destination,
\* and no two in one place, on whatever file system: an extraction never
\* replaces one of its own files (zupt_validate_archive_destinations,
\* zupt_format.c:2056-2149).
EntriesKeepApart(paths) ==
  ValidDestinations(paths, TRUE) =>
    /\ \A i \in DOMAIN paths : <<Dot, Dot>> \notin ToSet(Place(paths[i])) /\ Place(paths[i]) # <<>>
    /\ \A i, j \in DOMAIN paths : i # j => Place(paths[i]) # Place(paths[j])

\* PROPERTY: nothing is refused without need: safe paths, none of which is in
\* the way of another, are accepted.
EntriesThatFitAreTaken(paths) ==
  /\ \A i \in DOMAIN paths : PathIsSafe(paths[i])
  /\ \A i, j \in DOMAIN paths : i # j => ~IsPrefix(Place(paths[i]), Place(paths[j]))
  => ValidDestinations(paths, TRUE)
=============================================================================
