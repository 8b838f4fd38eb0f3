------------------------------- MODULE Arrays -------------------------------
(* Arrays of JavaScript: what is searched, and sorted by comparisons that    *)
(* need not be consistent.                                                   *)
EXTENDS SequencesExt

IndexesOf(seq, Test(_)) == {i \in DOMAIN seq : Test(seq[i])}
FirstIndex(indexes) == IF indexes = {} THEN 0
                       ELSE CHOOSE i \in indexes : \A j \in indexes : i <= j

(* The order of the first test that tells the two apart.                     *)
FirstOrder(tests) == LET told == SelectSeq(tests, LAMBDA t : t[1])
                     IN IF told = <<>> THEN 0 ELSE Head(told)[2]

(* Array.prototype.sort for short arrays: an ascending run, or a descending  *)
(* one reversed, to which the others are added by binary insertion.          *)
NodeSort(seq, Compare(_, _)) ==
  LET n == Len(seq)
      down == n > 1 /\ Compare(seq[2], seq[1]) < 0
      goesOn(i) == IF down THEN Compare(seq[i], seq[i - 1]) < 0
                   ELSE Compare(seq[i], seq[i - 1]) >= 0
      breaks == {i \in 2..n : ~goesOn(i)}
      run == IF breaks = {} THEN n ELSE FirstIndex(breaks) - 1
      start == IF down THEN Reverse(SubSeq(seq, 1, run)) ELSE SubSeq(seq, 1, run)
      insert(sorted, x) ==
        LET place[range \in (1..n) \X (1..n)] ==
              LET left == range[1]  right == range[2]
                  mid == left + (right - left) \div 2
              IN IF left = right THEN left
                 ELSE IF Compare(x, sorted[mid]) < 0 THEN place[<<left, mid>>]
                 ELSE place[<<mid + 1, right>>]
        IN InsertAt(sorted, place[<<1, Len(sorted) + 1>>], x)
  IN FoldLeft(insert, start, SubSeq(seq, run + 1, n))
=============================================================================
