-------------------------------- MODULE Grep --------------------------------
(***************************************************************************)
(* user/grep.c: lines are taken out of a buffer that is filled by reads of  *)
(* any length, and matched by a backtracking matcher for ^ . * $.           *)
(* Characters are one-letter strings, "n" is '\n'; no file contains '\0'.   *)
(***************************************************************************)
EXTENDS Integers, Sequences

LOCAL INSTANCE SequencesExt

CONSTANTS Patterns,   \* argv[1]
          FileLists,  \* the contents of argv[2 ..]
          GREPBUF     \* sizeof(buf)

ASSUME GrepAssumption == GREPBUF \in Nat \ {0, 1}

VARIABLES pattern, files,  \* the arguments; the files still to be opened
          whole,           \* the file that is read
          unread,          \* the bytes of it that read() has not given yet
          gbuf, gp,        \* buf[0 .. m - 1] and p
          gpc,
          out              \* the lines of the file that were written

gvars == <<pattern, files, whole, unread, gbuf, gp, gpc, out>>

GInit == /\ pattern \in Patterns /\ files \in FileLists
         /\ whole = <<>> /\ unread = <<>> /\ gbuf = <<>> /\ gp = 1 /\ gpc = "main" /\ out = <<>>
-----------------------------------------------------------------------------
(* The matcher; i and j are the positions of re and text. *)

RECURSIVE matchhere(_, _, _, _), matchstar(_, _, _, _, _)

At(s, i) == IF i <= Len(s) THEN s[i] ELSE "end"

\* matchstar(): no character is taken, or one more and then the same again.
matchstar(c, re, i, text, j) ==
  \/ matchhere(re, i, text, j)
  \/ At(text, j) # "end" /\ (text[j] = c \/ c = ".") /\ matchstar(c, re, i, text, j + 1)

matchhere(re, i, text, j) ==
  IF At(re, i) = "end" THEN TRUE
  ELSE IF At(re, i + 1) = "*" THEN matchstar(re[i], re, i + 2, text, j)
  ELSE IF re[i] = "$" /\ At(re, i + 1) = "end" THEN At(text, j) = "end"
  ELSE /\ At(text, j) # "end" /\ re[i] \in {".", text[j]}
       /\ matchhere(re, i + 1, text, j + 1)

\* Mutant: the empty string at the end of the text is not looked at.
match_nonempty(re, text) ==
  IF At(re, 1) = "^" THEN matchhere(re, 2, text, 1)
  ELSE \E j \in 1 .. Len(text) : matchhere(re, 1, text, j)

match(re, text) ==
  IF At(re, 1) = "^" THEN matchhere(re, 2, text, 1)
  ELSE \E j \in 1 .. Len(text) + 1 : matchhere(re, 1, text, j)
-----------------------------------------------------------------------------
(* grep() *)

\* main(): the next file is opened, or cannot be opened and ends the program.
main ==
  /\ gpc = "main" /\ files # <<>>
  /\ files' = Tail(files)
  /\ \/ /\ whole' = Head(files) /\ unread' = Head(files)
        /\ gbuf' = <<>> /\ gp' = 1 /\ out' = <<>> /\ gpc' = "read"
     \/ gpc' = "exit" /\ UNCHANGED <<whole, unread, gbuf, gp, out>>
  /\ UNCHANGED pattern

\* read() of at most what fits; 0 at the end of the file and if nothing fits.
read ==
  LET room == GREPBUF - Len(gbuf) - 1
      max == IF room < Len(unread) THEN room ELSE Len(unread)
  IN /\ gpc = "read"
     /\ \/ \E n \in 1 .. max :
             /\ gbuf' = gbuf \o SubSeq(unread, 1, n)
             /\ unread' = SubSeq(unread, n + 1, Len(unread)) /\ gp' = 1 /\ gpc' = "lines"
        \/ max = 0 /\ gpc' = "main" /\ UNCHANGED <<gbuf, unread, gp>>
     /\ UNCHANGED <<pattern, files, whole, out>>

\* One round of the loop over the lines in the buffer; q is strchr(p, '\n').
line_found ==
  LET q == CHOOSE k \in gp .. Len(gbuf) : gbuf[k] = "n" /\ \A l \in gp .. k - 1 : gbuf[l] # "n"
      text == SubSeq(gbuf, gp, q - 1)
  IN /\ gpc = "lines" /\ \E k \in gp .. Len(gbuf) : gbuf[k] = "n"
     /\ out' = IF match(pattern, text) THEN Append(out, text) ELSE out
     /\ gp' = q + 1
     /\ UNCHANGED <<pattern, files, whole, unread, gbuf, gpc>>

\* The rest of the buffer, the beginning of a line, moves to the front.
keep_rest ==
  /\ gpc = "lines" /\ \A k \in gp .. Len(gbuf) : gbuf[k] # "n"
  /\ gbuf' = SubSeq(gbuf, gp, Len(gbuf)) /\ gp' = 1 /\ gpc' = "read"
  /\ UNCHANGED <<pattern, files, whole, unread, out>>

GDone == (gpc = "exit" \/ (gpc = "main" /\ files = <<>>)) /\ UNCHANGED gvars

GNext == main \/ read \/ line_found \/ keep_rest \/ GDone

GSpec == GInit /\ [][GNext]_gvars
-----------------------------------------------------------------------------
(* Properties *)

GTypeOK == /\ gpc \in {"main", "read", "lines", "exit"}
           /\ Len(gbuf) < GREPBUF /\ gp \in 1 .. Len(gbuf) + 1

\* What a pattern means: an item takes one character or any number of the same kind.
Body(re) == IF At(re, 1) = "^" THEN Tail(re) ELSE re
RECURSIVE Items(_)
Items(re) == CASE re = <<>> -> <<>>
               [] At(re, 2) = "*" -> <<[c |-> re[1], star |-> TRUE]>> \o Items(SubSeq(re, 3, Len(re)))
               [] OTHER -> <<[c |-> re[1], star |-> FALSE]>> \o Items(Tail(re))
Anchored(items) == items # <<>> /\ Last(items) = [c |-> "$", star |-> FALSE]

\* The text has a match: places at[0] <= at[1] <= ... between its characters, such that the
\* k-th item takes the characters between at[k - 1] and at[k].
Matches(re, text) ==
  LET all == Items(Body(re))
      items == IF Anchored(all) THEN Front(all) ELSE all
  IN \E at \in [0 .. Len(items) -> 0 .. Len(text)] :
       /\ At(re, 1) = "^" => at[0] = 0
       /\ Anchored(all) => at[Len(items)] = Len(text)
       /\ \A k \in DOMAIN items :
            /\ at[k] >= at[k - 1] /\ (~items[k].star => at[k] = at[k - 1] + 1)
            /\ \A j \in at[k - 1] + 1 .. at[k] : items[k].c \in {".", text[j]}

\* The lines of s, each ended by '\n'.
LinesOf(s) ==
  LET ends == {k \in DOMAIN s : s[k] = "n"}
      Start(e) == Max({0} \cup {x \in ends : x < e}) + 1
      nth == SetToSortSeq(ends, <)
  IN [k \in DOMAIN nth |-> SubSeq(s, Start(nth[k]), nth[k] - 1)]

\* However the reads cut the file, what is written is the sequence of the lines that have
\* a match, each once and in order; reading stops early only before a line that does not
\* fit in the buffer, and a last line without '\n' is not looked at.
LinesMatched ==
  LET ahead == SubSeq(gbuf, gp, Len(gbuf)) \o unread
      done == SubSeq(whole, 1, Len(whole) - Len(ahead))
  IN /\ out = SelectSeq(LinesOf(done), LAMBDA l : Matches(pattern, l))
     /\ gpc = "main" =>
          \/ \A k \in DOMAIN ahead : ahead[k] # "n"
          \/ \A k \in 1 .. GREPBUF - 1 : ahead[k] # "n"
=============================================================================
