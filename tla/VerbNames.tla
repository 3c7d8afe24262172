------------------------------- MODULE VerbNames -------------------------------
(***************************************************************************)
(* The names of verbs.  A name is a sequence of letters in which stars     *)
(* stand for "the rest may be left out", or, at the end, for anything; a   *)
(* verb has several.  Two algorithms read them: verbcasecmp() of utils.c   *)
(* finds the verb for a word, and single_names_share_namespace() of        *)
(* verbs.c looks for a word that two verbs have in common.                 *)
(***************************************************************************)
EXTENDS Integers, Sequences

Plain(s) == SelectSeq(s, LAMBDA c : c # "*")

\* Where the first star is, behind the end if there is none
StarAt(s) ==
  CHOOSE i \in 1..(Len(s) + 1) :
    /\ i <= Len(s) => s[i] = "*"
    /\ \A j \in 1..(i - 1) : s[j] # "*"

EndsInStar(s) == s # <<>> /\ s[Len(s)] = "*"

\* Neither differs from the other before one of them ends.
Together(s, t) == \A i \in 1..Len(s) : i <= Len(t) => s[i] = t[i]

name_matches(name, word) ==
  /\ Together(Plain(name), word)
  /\ IF Len(word) > Len(Plain(name)) THEN EndsInStar(name)
     ELSE Len(word) = Len(Plain(name)) \/ StarAt(name) - 1 <= Len(word)

verbcasecmp(names, word) == \E name \in names : name_matches(name, word)

-----------------------------------------------------------------------------
(* A comparison ends with "yes" or "no", or goes on "forever". *)

\* s is at a star, and t is not: up to the end of one of them, or to a star of t.
one_star(s, t, at_star_of_t) ==
  LET plain == SubSeq(t, 1, StarAt(t) - 1)
  IN IF ~Together(Plain(s), plain) THEN "no"
     ELSE IF Len(Plain(s)) < Len(plain) THEN (IF EndsInStar(s) THEN "yes" ELSE "no")
     ELSE IF plain = t THEN "yes"
     ELSE at_star_of_t

both_stars(s, t) == IF Together(Plain(s), Plain(t)) THEN "yes" ELSE "no"

\* Up to where they differ, one ends, or one has a star
SameLength(s, t) ==
  CHOOSE n \in 0..Len(s) :
    /\ n <= Len(t)
    /\ \A i \in 1..n : s[i] = t[i] /\ s[i] # "*"
    /\ n < Len(s) /\ n < Len(t) => s[n + 1] # t[n + 1] \/ s[n + 1] = "*"

\* When bar is the first to come to a star and foo then comes to one, barstar is set
\* in place of foostar, and the loop does not end.
single_names_share_namespace(foo, bar) ==
  LET n == SameLength(foo, bar)
      s == SubSeq(foo, n + 1, Len(foo))
      t == SubSeq(bar, n + 1, Len(bar))
      foostar == s # <<>> /\ s[1] = "*"
      barstar == t # <<>> /\ t[1] = "*"
  IN CASE foostar /\ barstar -> both_stars(s, t)
       [] foostar /\ ~barstar -> one_star(s, t, both_stars(s, t))
       [] ~foostar /\ barstar -> one_star(t, s, "forever")
       [] OTHER -> IF s = <<>> /\ t = <<>> THEN "yes" ELSE "no"

\* What the comparisons of all pairs of names may end with; the first "yes" is the
\* answer, unless a comparison without end comes before it.
verbnames_share_namespace(names, others) ==
  {single_names_share_namespace(foo, bar) : foo \in names, bar \in others}
=============================================================================
