-------------------------- MODULE MCZipExtraction --------------------------
(* Values for ZipExtraction: components that differ in the case of an     *)
(* ASCII letter (a, A) or of another one (u, U), one that is refused and  *)
(* one with a backslash, a|u; contents of every length around the limits.      *)
EXTENDS ZipExtraction

MCAsciiFold == [c \in Component |-> IF c = "A" THEN "a" ELSE c]
MCVolumeFold == [c \in Component |-> IF c = "A" THEN "a" ELSE IF c = "U" THEN "u" ELSE c]
MCSplit == [c \in Component |-> IF c = "a|u" THEN <<"a", "u">> ELSE <<c>>]
MCBytes == [d \in Data |-> IF d \in {"one", "uno"} THEN 1 ELSE IF d = "two" THEN 2
                           ELSE IF d = "three" THEN 3 ELSE 0]
MCDeflated == [d \in Data |-> IF MCBytes[d] = 0 THEN 0 ELSE 1]

File(p, d) == [path |-> p, directory |-> FALSE, type |-> "regular",
               size |-> MCBytes[d], packed |-> 1, data |-> d]
Dir(p) == [path |-> p, directory |-> TRUE, type |-> "directory", size |-> 0,
           packed |-> 0, data |-> "empty"]

MCRecord ==
  {File(p, "one") : p \in {<<"a">>, <<"u">>, <<"A", "u">>}}
    \cup {Dir(p) : p \in {<<"a">>, <<"U">>}}
    \cup {File(<<"U">>, "uno"), File(<<"a|u">>, "two"), File(<<"u", "..">>, "one"),
          [Dir(<<"a">>) EXCEPT !.type = "regular"],
          [File(<<"u">>, "one") EXCEPT !.type = "special"],
          [File(<<"A">>, "one") EXCEPT !.type = "directory"],
          [File(<<"a">>, "three") EXCEPT !.size = 2],   \* holds more than it declares
          [File(<<"u", "a">>, "one") EXCEPT !.size = 2],  \* holds less
          File(<<"U">>, "three"),                       \* over EntryLimit
          [File(<<"A">>, "two") EXCEPT !.packed = 0]}   \* a suspicious ratio

MCSource ==
  {(<<"a">> :> "one") @@ (<<"u">> :> "three"),
   (<<"a">> :> Folder) @@ (<<"a", "a">> :> "one") @@ (<<"u">> :> "empty"),
   (<<"a">> :> Folder) @@ (<<"a", "u">> :> Folder) @@ (<<"a", "u", "a">> :> "two"),
   (<<"a">> :> Folder) @@ (<<"a", "u">> :> "one") @@ (<<"a|u">> :> "one")}
=============================================================================
