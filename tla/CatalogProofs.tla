--------------------------- MODULE CatalogProofs ---------------------------
(***************************************************************************)
(* On S3, and when no file is packed, a repository implements Catalog: a   *)
(* backup becomes visible in one step, whole, with the content that was    *)
(* asked for, and nothing else changes what can be restored.               *)
(***************************************************************************)
EXTENDS RepositoryProofs

-----------------------------------------------------------------------------
(* Requests *)

\* The request of a job has the files of the job, in their places.
LEMMA RequestFiles ==
    ASSUME NEW job \in Job
    PROVE  /\ \A x \in Abstract!Positions(RequestOf(job)) :
                  /\ x = <<x[1], x[2]>>
                  /\ x[1] \in DOMAIN job.args /\ x[2] \in DOMAIN job.args[x[1]]
           /\ \A a \in DOMAIN job.args : \A i \in DOMAIN job.args[a] :
                  /\ <<a, i>> \in Abstract!Positions(RequestOf(job))
                  /\ Abstract!FileAt(RequestOf(job), <<a, i>>).path = job.args[a][i].path
                  /\ Abstract!FileAt(RequestOf(job), <<a, i>>).content = job.args[a][i].blocks
<1> DEFINE req == RequestOf(job)
<1>1. /\ DOMAIN req = DOMAIN job.args
      /\ \A a \in DOMAIN job.args : DOMAIN req[a] = DOMAIN job.args[a]
      /\ \A a \in DOMAIN job.args : \A i \in DOMAIN job.args[a] :
            req[a][i].path = job.args[a][i].path /\ req[a][i].content = job.args[a][i].blocks
  BY DEF RequestOf
<1> HIDE DEF req
<1>2. \A x \in Abstract!Positions(req) :
         \E a \in DOMAIN req : x \in {a} \X DOMAIN req[a]
  BY DEF Abstract!Positions
<1>3. \A a \in DOMAIN req : \A i \in DOMAIN req[a] : <<a, i>> \in Abstract!Positions(req)
  BY DEF Abstract!Positions
<1> QED
  BY <1>1, <1>2, <1>3 DEF req, Abstract!FileAt

\* The arguments of a job are lists of lists of files, and what is left of them
\* is counted from their end.
LEMMA JobArgs ==
    ASSUME NEW s, SessionOK(s)
    PROVE  /\ s.job.args \in Seq(Seq(File)) /\ s.args \in Seq(Seq(File))
           /\ ArgsDone(s) \in Int /\ (s.args = <<>> => ArgsDone(s) = Len(s.job.args))
           /\ DOMAIN s.job.args = 1..Len(s.job.args) /\ Len(s.job.args) \in Nat
           /\ \A a \in DOMAIN s.job.args :
                 /\ a \in Nat /\ s.job.args[a] \in Seq(File)
                 /\ DOMAIN s.job.args[a] \subseteq Nat
<1> DEFINE all == s.job.args
           left == s.args
<1>1. all \in Seq(Seq(File)) /\ left \in Seq(Seq(File))
  BY JobAssumption DEF SessionOK
<1>2. ArgsDone(s) = Len(all) - Len(left)
  BY DEF ArgsDone
<1> HIDE DEF all, left
<1>3. /\ ArgsDone(s) \in Int /\ (left = <<>> => ArgsDone(s) = Len(all))
      /\ DOMAIN all = 1..Len(all) /\ Len(all) \in Nat
      /\ \A a \in DOMAIN all : a \in Nat /\ all[a] \in Seq(File) /\ DOMAIN all[a] \subseteq Nat
  BY <1>1, <1>2
<1> QED
  BY <1>1, <1>3 DEF all, left

\* What a session has dealt with depends on its job, the arguments that are
\* left and its snapshot only.
LEMMA SameRequest ==
    ASSUME NEW s, NEW t, t.job = s.job, t.args = s.args, t.snap = s.snap,
           ArgsLeft(s), Recorded(s)
    PROVE  ArgsLeft(t) /\ Recorded(t)
<1>1. ArgsDone(t) = ArgsDone(s)
  BY DEF ArgsDone
<1>2. \A a, i : Dealt(t, a, i) <=> Dealt(s, a, i)
  BY <1>1 DEF Dealt
<1>3. ArgsLeft(t)
  BY <1>1 DEF ArgsLeft
<1>4. Recorded(t)
  BY <1>2 DEF Recorded
<1> QED
  BY <1>3, <1>4

\* A new session has dealt with nothing.
LEMMA FreshRequest ==
    ASSUME NEW n \in Name, NEW job \in Job
    PROVE  ArgsLeft(Session(n, job)) /\ Recorded(Session(n, job))
<1> DEFINE s == Session(n, job)
           all == job.args
<1>1. all \in Seq(Seq(File))
  BY JobAssumption
<1>2. s.job = job /\ s.args = all /\ s.snap = EmptyFcn
  BY DEF Session
<1> HIDE DEF s
<1>3. ArgsDone(s) = Len(all) - Len(all)
  BY <1>2 DEF ArgsDone
<1>4. \A a, i : Dealt(s, a, i) <=> \/ a <= Len(all) - Len(all)
                                   \/ /\ a = Len(all) - Len(all) + 1
                                      /\ i <= Len(all[a]) - Len(Head(all))
  BY <1>2, <1>3 DEF Dealt
<1>5. ArgsLeft(s) <=>
         /\ Len(all) <= Len(all)
         /\ all # <<>> =>
              /\ Len(Head(all)) <= Len(all[Len(all) - Len(all) + 1])
              /\ \A i \in DOMAIN Head(all) :
                    Head(all)[i] = all[Len(all) - Len(all) + 1]
                                      [Len(all[Len(all) - Len(all) + 1]) - Len(Head(all)) + i]
         /\ \A a \in 2..Len(all) : all[a] = all[Len(all) - Len(all) + a]
  BY <1>2, <1>3 DEF ArgsLeft
<1> HIDE DEF all
<1>6. Len(all) \in Nat /\ Len(all) - Len(all) = 0
  BY <1>1
<1>7. ASSUME all # <<>>
      PROVE  Head(all) = all[1] /\ Head(all) \in Seq(File)
  BY <1>1, <1>7
<1>8. ArgsLeft(s)
  <2>1. ASSUME all # <<>>, NEW i \in DOMAIN Head(all)
        PROVE  Head(all)[i] = all[1][Len(all[1]) - Len(Head(all)) + i]
    <3> DEFINE h == Head(all)
    <3>1. h \in Seq(File) /\ i \in DOMAIN h
      BY <1>7, <2>1
    <3>2. Len(h) - Len(h) + i = i
      <4> HIDE DEF h
      <4> QED
        BY <3>1
    <3> QED
      BY <1>7, <2>1, <3>2
  <2>2. all # <<>> => Len(Head(all)) <= Len(all[1])
    BY <1>7
  <2>3. 0 + 1 = 1 /\ \A a \in 2..Len(all) : 0 + a = a
    BY <1>6
  <2> QED
    BY <1>5, <1>6, <2>1, <2>2, <2>3
<1>9. ASSUME NEW a \in DOMAIN all, NEW i \in DOMAIN all[a]
      PROVE  ~Dealt(s, a, i)
  <2> DEFINE h == all[a]
  <2>1. a \in Nat \ {0} /\ h \in Seq(File) /\ i \in DOMAIN h
    BY <1>1, <1>9
  <2>2. i \in Nat \ {0} /\ Len(h) - Len(h) = 0
    <3> HIDE DEF h
    <3> QED
      BY <2>1
  <2>3. a = 1 => Head(all) = h
    BY <1>1, <1>9
  <2>4. ~(a <= 0) /\ (a = 0 + 1 => ~(i <= Len(h) - Len(Head(all))))
    <3> HIDE DEF h
    <3> QED
      BY <2>1, <2>2, <2>3
  <2> QED
    BY <1>4, <1>6, <2>4
<1>10. Recorded(s)
  BY <1>2, <1>9 DEF Recorded, EmptyFcn, all
<1> QED
  BY <1>8, <1>10 DEF s

\* A session's place in its job: file m + 1 of argument k + 1 is the current
\* one, and what comes before it is dealt with.
LEMMA PlaceInJob ==
    ASSUME NEW s, SessionOK(s), ArgsLeft(s), s.args # <<>>
    PROVE  LET k == ArgsDone(s)
               h == Head(s.args)
               m == Len(s.job.args[k + 1]) - Len(h)
           IN  /\ k \in Nat /\ m \in Nat /\ k + 1 \in DOMAIN s.job.args
               /\ h \in Seq(File) /\ Len(h) = Len(s.job.args[k + 1]) - m
               /\ \A i \in DOMAIN h : h[i] = s.job.args[k + 1][m + i]
               /\ ArgOpen(s) => /\ m + 1 \in DOMAIN s.job.args[k + 1]
                                /\ CurrentFile(s) = s.job.args[k + 1][m + 1]
               /\ \A a, i : Dealt(s, a, i) <=> a <= k \/ (a = k + 1 /\ i <= m)
               /\ \A a \in 2..Len(s.args) : s.args[a] = s.job.args[k + a]
               /\ k = Len(s.job.args) - Len(s.args)
<1> DEFINE all == s.job.args
           left == s.args
           k == ArgsDone(s)
           g == all[k + 1]
           h == Head(left)
           m == Len(g) - Len(h)
<1>1. all \in Seq(Seq(File)) /\ left \in Seq(Seq(File)) /\ left # <<>>
  BY JobArgs
<1>2. k = Len(all) - Len(left) /\ Len(left) <= Len(all)
  BY DEF ArgsDone, ArgsLeft
<1>3. /\ Len(h) <= Len(g) /\ \A i \in DOMAIN h : h[i] = g[m + i]
      /\ \A a \in 2..Len(left) : left[a] = all[k + a]
  BY DEF ArgsLeft
<1>4. \A a, i : Dealt(s, a, i) <=> a <= k \/ (a = k + 1 /\ i <= m)
  BY DEF Dealt
<1>5. ArgOpen(s) => h # <<>> /\ CurrentFile(s) = Head(h)
  BY DEF ArgOpen, CurrentFile
<1> HIDE DEF all, left, k
<1>6. k \in Nat /\ k + 1 \in DOMAIN all
  BY <1>1, <1>2
<1>7. g \in Seq(File) /\ h \in Seq(File)
  BY <1>1, <1>6
<1> HIDE DEF g, h
<1>8. m \in Nat /\ Len(h) = Len(g) - m
  BY <1>3, <1>7
<1>9. ASSUME h # <<>>
      PROVE  m + 1 \in DOMAIN g /\ Head(h) = g[m + 1]
  BY <1>3, <1>7, <1>9
<1> HIDE DEF m
<1> QED
  BY <1>1, <1>2, <1>3, <1>4, <1>5, <1>6, <1>7, <1>8, <1>9 DEF all, left, k, g, h, m

\* Without its first file, an argument is left with one less.
LEMMA NextFileLeft ==
    ASSUME NEW left \in Seq(Seq(File)), left # <<>>
    PROVE  /\ Len(NextFile(left)) = Len(left) /\ NextFile(left) # <<>>
           /\ Head(NextFile(left)) = Tail(Head(left))
           /\ \A a \in 2..Len(left) : NextFile(left)[a] = left[a]
<1> DEFINE x == Tail(Head(left))
           y == Tail(left)
<1>1. y \in Seq(Seq(File)) /\ Len(y) = Len(left) - 1
      /\ \A a \in 1..Len(y) : y[a] = left[a + 1]
  OBVIOUS
<1>2. NextFile(left) = <<x>> \o y
  BY DEF NextFile
<1> HIDE DEF x, y
<1>3. /\ Len(<<x>> \o y) = 1 + Len(y) /\ (<<x>> \o y)[1] = x
      /\ \A a \in 1..Len(y) : (<<x>> \o y)[a + 1] = y[a]
  BY <1>1
<1>4. <<x>> \o y # <<>> /\ Head(<<x>> \o y) = x
  BY <1>1, <1>3
<1>5. ASSUME NEW a \in 2..Len(left)
      PROVE  (<<x>> \o y)[a] = left[a]
  <2>1. a - 1 \in 1..Len(y) /\ (a - 1) + 1 = a
    BY <1>1, <1>5
  <2> QED
    BY <1>1, <1>3, <2>1
<1> QED
  BY <1>1, <1>2, <1>3, <1>4, <1>5 DEF x

\* What is left of an argument stays in its place when a file is taken off it.
LEMMA TailInPlace ==
    ASSUME NEW g \in Seq(File), NEW h \in Seq(File), h # <<>>, NEW m \in Nat,
           Len(h) = Len(g) - m, \A i \in DOMAIN h : h[i] = g[m + i]
    PROVE  /\ Len(g) - Len(Tail(h)) = m + 1 /\ Len(Tail(h)) <= Len(g)
           /\ \A i \in DOMAIN Tail(h) : Tail(h)[i] = g[m + 1 + i]
<1>1. /\ Tail(h) \in Seq(File) /\ Len(Tail(h)) = Len(h) - 1
      /\ Len(g) \in Nat /\ Len(h) \in Nat
  OBVIOUS
<1>2. Len(g) - Len(Tail(h)) = m + 1 /\ Len(Tail(h)) <= Len(g)
  BY <1>1
<1>3. ASSUME NEW i \in DOMAIN Tail(h)
      PROVE  Tail(h)[i] = g[m + 1 + i]
  <2>1. i \in Nat /\ i + 1 \in DOMAIN h /\ Tail(h)[i] = h[i + 1]
    BY <1>1, <1>3
  <2>2. m + (i + 1) = m + 1 + i
    BY <2>1
  <2> QED
    BY <2>1, <2>2
<1> QED
  BY <1>2, <1>3

\* Once the current file is recorded, the files that are dealt with are those
\* from before and it.
LEMMA RecordedNext ==
    ASSUME NEW s, SessionOK(s), ArgOpen(s), ArgsLeft(s), Recorded(s),
           NEW t, t.job = s.job, t.args = NextFile(s.args), NEW e,
           e.md5 = CurrentFile(s).blocks,
           t.snap = addFileEntry(s.snap, CurrentFile(s).path, e)
    PROVE  ArgsLeft(t) /\ Recorded(t)
<1> DEFINE all == s.job.args
           left == s.args
           k == ArgsDone(s)
           g == all[k + 1]
           h == Head(left)
           m == Len(g) - Len(h)
           f == CurrentFile(s)
           req == RequestOf(s.job)
<1>1. /\ left # <<>> /\ h # <<>>
      /\ k \in Nat /\ m \in Nat /\ k + 1 \in DOMAIN all
      /\ h \in Seq(File) /\ Len(h) = Len(g) - m
      /\ \A i \in DOMAIN h : h[i] = g[m + i]
      /\ m + 1 \in DOMAIN g /\ f = g[m + 1]
      /\ \A a, i : Dealt(s, a, i) <=> a <= k \/ (a = k + 1 /\ i <= m)
      /\ \A a \in 2..Len(left) : left[a] = all[k + a]
      /\ k = Len(all) - Len(left)
  BY PlaceInJob DEF ArgOpen
<1>2. /\ all \in Seq(Seq(File)) /\ left \in Seq(Seq(File)) /\ g \in Seq(File)
  BY <1>1, JobArgs
<1>3. \A a \in DOMAIN all : a \in Nat /\ \A i \in DOMAIN all[a] : i \in Nat
  BY JobArgs
<1>4. \A a \in DOMAIN all : \A i \in DOMAIN all[a] :
         Dealt(s, a, i) => all[a][i].path \in DOMAIN s.snap
  BY DEF Recorded
<1>5. \A p \in DOMAIN s.snap :
         \E a \in DOMAIN all : \E i \in DOMAIN all[a] :
             /\ Dealt(s, a, i)
             /\ all[a][i].path = p
             /\ FirstFile(s.job, a, i)
             /\ s.snap[p].md5 = all[a][i].blocks
  BY DEF Recorded
<1>6. /\ \A x \in Abstract!Positions(req) :
            x = <<x[1], x[2]>> /\ x[1] \in DOMAIN all /\ x[2] \in DOMAIN all[x[1]]
      /\ \A a \in DOMAIN all : \A i \in DOMAIN all[a] :
            Abstract!FileAt(req, <<a, i>>).path = all[a][i].path
  BY RequestFiles DEF SessionOK
<1>7. /\ Len(g) - Len(Tail(h)) = m + 1 /\ Len(Tail(h)) <= Len(g)
      /\ \A i \in DOMAIN Tail(h) : Tail(h)[i] = g[m + 1 + i]
  <2> HIDE DEF all, left, k, g, h, m, f, req
  <2> QED
    BY <1>1, <1>2, TailInPlace
<1>8. /\ Len(t.args) = Len(left) /\ Head(t.args) = Tail(h) /\ t.args # <<>>
      /\ \A a \in 2..Len(left) : t.args[a] = left[a]
  BY <1>1, <1>2, NextFileLeft
<1>9. ArgsDone(t) = k /\ t.job.args = all /\ Len(left) <= Len(all)
  BY <1>8 DEF ArgsDone, ArgsLeft
<1> HIDE DEF all, left, k, h, m, f, req
<1>10. t.job.args[k + 1] = g
  BY <1>9
<1> HIDE DEF g
<1>11. ArgsLeft(t)
  <2>1. Len(t.args) <= Len(t.job.args)
    BY <1>8, <1>9
  <2>2. \A a \in 2..Len(t.args) : t.args[a] = t.job.args[k + a]
    BY <1>1, <1>8, <1>9
  <2>3. /\ Len(Head(t.args)) <= Len(g)
        /\ \A i \in DOMAIN Head(t.args) :
              Head(t.args)[i] = g[Len(g) - Len(Head(t.args)) + i]
    BY <1>7, <1>8
  <2> QED
    BY <1>9, <1>10, <2>1, <2>2, <2>3 DEF ArgsLeft
<1>12. \A a, i : Dealt(t, a, i) <=> a <= k \/ (a = k + 1 /\ i <= m + 1)
  BY <1>7, <1>8, <1>9, <1>10 DEF Dealt
<1>13. ASSUME NEW a \in DOMAIN all, NEW i \in DOMAIN all[a]
       PROVE  Dealt(t, a, i) <=> Dealt(s, a, i) \/ (a = k + 1 /\ i = m + 1)
  BY <1>1, <1>3, <1>12
<1>14. /\ \A p \in DOMAIN s.snap : p \in DOMAIN t.snap /\ t.snap[p] = s.snap[p]
       /\ f.path \in DOMAIN t.snap
       /\ \A p \in DOMAIN t.snap \ DOMAIN s.snap : p = f.path /\ t.snap[p] = e
  BY DEF addFileEntry, With, f
<1>15. ASSUME NEW a \in DOMAIN all, NEW i \in DOMAIN all[a], Dealt(t, a, i)
       PROVE  all[a][i].path \in DOMAIN t.snap
  BY <1>1, <1>4, <1>13, <1>14, <1>15 DEF g
<1>16. ASSUME f.path \notin DOMAIN s.snap
       PROVE  FirstFile(s.job, k + 1, m + 1)
  <2>1. ASSUME NEW y \in Abstract!Positions(req), Abstract!Before(y, <<k + 1, m + 1>>)
        PROVE  Abstract!FileAt(req, y).path # Abstract!FileAt(req, <<k + 1, m + 1>>).path
    <3>1. y = <<y[1], y[2]>> /\ y[1] \in DOMAIN all /\ y[2] \in DOMAIN all[y[1]]
      BY <1>6, <2>1
    <3>2. y[1] \in Nat /\ y[2] \in Nat
      BY <1>3, <3>1
    <3>3. y[1] < k + 1 \/ (y[1] = k + 1 /\ y[2] < m + 1)
      BY <2>1 DEF Abstract!Before
    <3>4. Dealt(s, y[1], y[2])
      BY <1>1, <3>2, <3>3
    <3>5. all[y[1]][y[2]].path \in DOMAIN s.snap
      BY <1>4, <3>1, <3>4
    <3>6. Abstract!FileAt(req, y).path = all[y[1]][y[2]].path
      BY <1>6, <3>1
    <3>7. Abstract!FileAt(req, <<k + 1, m + 1>>).path = f.path
      BY <1>1, <1>6 DEF g
    <3> QED
      BY <1>16, <3>5, <3>6, <3>7
  <2> QED
    BY <2>1 DEF FirstFile, Abstract!IsFirst, req
<1>17. ASSUME NEW p \in DOMAIN t.snap
       PROVE  \E a \in DOMAIN all : \E i \in DOMAIN all[a] :
                  /\ Dealt(t, a, i)
                  /\ all[a][i].path = p
                  /\ FirstFile(s.job, a, i)
                  /\ t.snap[p].md5 = all[a][i].blocks
  <2>1. CASE p \in DOMAIN s.snap
    BY <1>5, <1>13, <1>14, <2>1
  <2>2. CASE p \notin DOMAIN s.snap
    <3>1. p = f.path /\ t.snap[p].md5 = f.blocks
      BY <1>14, <1>17, <2>2 DEF f
    <3>2. k + 1 \in DOMAIN all /\ m + 1 \in DOMAIN all[k + 1] /\ f = all[k + 1][m + 1]
      BY <1>1 DEF g
    <3>3. FirstFile(s.job, k + 1, m + 1) /\ Dealt(t, k + 1, m + 1)
      BY <1>13, <1>16, <2>2, <3>1, <3>2
    <3> QED
      BY <3>1, <3>2, <3>3
  <2> QED
    BY <2>1, <2>2
<1>18. Recorded(t)
  BY <1>15, <1>17 DEF Recorded, all
<1> QED
  BY <1>11, <1>18

\* Going on to the next argument deals with no file.
LEMMA RecordedArg ==
    ASSUME NEW s, SessionOK(s), ArgDone(s), ArgsLeft(s), Recorded(s),
           NEW t, t.job = s.job, t.args = Tail(s.args), t.snap = s.snap
    PROVE  ArgsLeft(t) /\ Recorded(t)
<1> DEFINE all == s.job.args
           left == s.args
           k == ArgsDone(s)
           h == Head(left)
           m == Len(all[k + 1]) - Len(h)
           next == Tail(left)
<1>1. /\ left # <<>> /\ h = <<>>
      /\ k \in Nat /\ m \in Nat /\ k + 1 \in DOMAIN all
      /\ Len(h) = Len(all[k + 1]) - m
      /\ \A a, i : Dealt(s, a, i) <=> a <= k \/ (a = k + 1 /\ i <= m)
      /\ \A a \in 2..Len(left) : left[a] = all[k + a]
      /\ k = Len(all) - Len(left)
  BY PlaceInJob DEF ArgDone
<1>2. /\ all \in Seq(Seq(File)) /\ left \in Seq(Seq(File))
      /\ t.args = next /\ t.job.args = all /\ Len(left) <= Len(all)
  BY JobArgs DEF ArgsLeft
<1>3. ArgsDone(t) = Len(all) - Len(next)
  BY <1>2 DEF ArgsDone
<1>4. ArgsLeft(t) <=>
         /\ Len(next) <= Len(all)
         /\ next # <<>> =>
              /\ Len(Head(next)) <= Len(all[ArgsDone(t) + 1])
              /\ \A i \in DOMAIN Head(next) :
                    Head(next)[i] = all[ArgsDone(t) + 1]
                                       [Len(all[ArgsDone(t) + 1]) - Len(Head(next)) + i]
         /\ \A a \in 2..Len(next) : next[a] = all[ArgsDone(t) + a]
  BY <1>2 DEF ArgsLeft
<1>5. \A a, i : Dealt(t, a, i) <=> \/ a <= ArgsDone(t)
                                   \/ /\ a = ArgsDone(t) + 1
                                      /\ i <= Len(all[a]) - Len(Head(next))
  BY <1>2 DEF Dealt
<1> HIDE DEF all, left, k, h, m
<1>6. /\ next \in Seq(Seq(File)) /\ Len(next) = Len(left) - 1
      /\ \A a \in 1..Len(next) : next[a] = left[a + 1]
  BY <1>1, <1>2
<1> HIDE DEF next
<1>7. ArgsDone(t) = k + 1 /\ Len(next) <= Len(all)
  BY <1>1, <1>2, <1>3, <1>6
<1>8. ASSUME NEW a \in 1..Len(next)
      PROVE  next[a] = all[k + 1 + a]
  <2>1. a + 1 \in 2..Len(left) /\ k + (a + 1) = k + 1 + a
    BY <1>1, <1>2, <1>6, <1>8
  <2> QED
    BY <1>1, <1>6, <1>8, <2>1
<1>9. ASSUME next # <<>>
      PROVE  Head(next) = all[k + 1 + 1] /\ Head(next) \in Seq(File)
  <2>1. 1 \in 1..Len(next) /\ Head(next) = next[1] /\ next[1] \in Seq(File)
    BY <1>6, <1>9
  <2> QED
    BY <1>8, <2>1
<1>10. ASSUME next # <<>>
       PROVE  /\ Len(Head(next)) <= Len(all[k + 1 + 1])
              /\ Len(all[k + 1 + 1]) - Len(Head(next)) = 0
              /\ \A i \in DOMAIN Head(next) :
                    /\ i > 0
                    /\ Head(next)[i] =
                           all[k + 1 + 1][Len(all[k + 1 + 1]) - Len(Head(next)) + i]
  <2> DEFINE x == Head(next)
  <2>1. x \in Seq(File) /\ all[k + 1 + 1] = x
    BY <1>9, <1>10
  <2> HIDE DEF x
  <2>2. Len(x) <= Len(x) /\ Len(x) - Len(x) = 0 /\ \A i \in DOMAIN x : i > 0 /\ 0 + i = i
    BY <2>1
  <2> QED
    BY <2>1, <2>2 DEF x
<1>11. ArgsLeft(t)
  <2>1. \A a \in 2..Len(next) : next[a] = all[k + 1 + a]
    BY <1>6, <1>8
  <2> QED
    BY <1>4, <1>7, <1>10, <2>1
<1>12. ASSUME NEW a \in DOMAIN all, NEW i \in DOMAIN all[a]
       PROVE  Dealt(t, a, i) <=> Dealt(s, a, i)
  <2> DEFINE g == all[a]
  <2>1. a \in 1..Len(all) /\ g \in Seq(File) /\ i \in DOMAIN g
    BY <1>2, <1>12
  <2>2. i \in 1..Len(g) /\ Len(g) \in Nat
    <3> HIDE DEF g
    <3> QED
      BY <2>1
  <2>3. CASE a <= k
    BY <1>1, <1>5, <1>7, <2>1, <2>3
  <2>4. CASE a = k + 1
    <3>1. Len(g) = m
      BY <1>1, <2>4
    <3>2. Dealt(s, a, i)
      BY <1>1, <2>2, <2>4, <3>1
    <3>3. Dealt(t, a, i)
      BY <1>1, <1>5, <1>7, <2>4
    <3> QED
      BY <3>2, <3>3
  <2>5. CASE a = k + 1 + 1
    <3>1. next # <<>>
      BY <1>1, <1>2, <1>6, <2>1, <2>5
    <3>2. Len(g) - Len(Head(next)) = 0
      BY <1>10, <2>5, <3>1
    <3>3. ~(a <= k + 1) /\ ~(i <= 0) /\ ~(a <= k) /\ a # k + 1
      BY <1>1, <2>1, <2>2, <2>5
    <3>4. ~Dealt(t, a, i) /\ ~Dealt(s, a, i)
      BY <1>1, <1>5, <1>7, <3>2, <3>3
    <3> QED
      BY <3>4
  <2>6. CASE a > k + 1 + 1
    <3>1. ~(a <= k + 1) /\ a # k + 1 + 1 /\ ~(a <= k) /\ a # k + 1
      BY <1>1, <2>1, <2>6
    <3> QED
      BY <1>1, <1>5, <1>7, <3>1
  <2> QED
    BY <1>1, <2>1, <2>3, <2>4, <2>5, <2>6
<1>13. Recorded(t)
  <2>1. \A a \in DOMAIN s.job.args : \A i \in DOMAIN s.job.args[a] :
            Dealt(t, a, i) <=> Dealt(s, a, i)
    BY <1>12 DEF all
  <2> QED
    BY <2>1 DEF Recorded
<1> QED
  BY <1>11, <1>13

\* When no argument is left, what is recorded is what was asked for.
LEMMA RecordedAll ==
    ASSUME NEW s, SessionOK(s), Recorded(s), s.args = <<>>
    PROVE  Abstract!Promised(RequestOf(s.job)) = [p \in DOMAIN s.snap |-> s.snap[p].md5]
<1> DEFINE req == RequestOf(s.job)
           Is(p, x) == Abstract!FileAt(req, x).path = p /\ Abstract!IsFirst(req, x)
<1>1. ASSUME NEW a \in DOMAIN s.job.args, NEW i \in DOMAIN s.job.args[a]
      PROVE  s.job.args[a][i].path \in DOMAIN s.snap
  <2>1. a <= ArgsDone(s)
    BY <1>1, JobArgs DEF ArgsDone
  <2> QED
    BY <1>1, <2>1 DEF Recorded, Dealt
<1>2. ASSUME NEW p \in DOMAIN s.snap
      PROVE  \E x \in Abstract!Positions(req) :
                 Is(p, x) /\ Abstract!FileAt(req, x).content = s.snap[p].md5
  <2>1. PICK a \in DOMAIN s.job.args : \E i \in DOMAIN s.job.args[a] :
            /\ s.job.args[a][i].path = p
            /\ FirstFile(s.job, a, i)
            /\ s.snap[p].md5 = s.job.args[a][i].blocks
    BY DEF Recorded
  <2>2. PICK i \in DOMAIN s.job.args[a] :
            /\ s.job.args[a][i].path = p
            /\ FirstFile(s.job, a, i)
            /\ s.snap[p].md5 = s.job.args[a][i].blocks
    BY <2>1
  <2>3. /\ <<a, i>> \in Abstract!Positions(req)
        /\ Abstract!FileAt(req, <<a, i>>).path = p
        /\ Abstract!FileAt(req, <<a, i>>).content = s.snap[p].md5
        /\ Abstract!IsFirst(req, <<a, i>>)
    BY <2>2, RequestFiles DEF SessionOK, FirstFile
  <2> HIDE DEF req
  <2> QED
    BY <2>2, <2>3
<1>3. ASSUME NEW p, NEW x \in Abstract!Positions(req), NEW y \in Abstract!Positions(req),
             Is(p, x), Is(p, y)
      PROVE  x = y
  <2>1. /\ x = <<x[1], x[2]>> /\ y = <<y[1], y[2]>>
        /\ x[1] \in Nat /\ x[2] \in Nat /\ y[1] \in Nat /\ y[2] \in Nat
    BY <1>3, RequestFiles, JobArgs DEF SessionOK
  <2>2. ~Abstract!Before(x, y) /\ ~Abstract!Before(y, x)
    BY <1>3 DEF Abstract!IsFirst
  <2>3. x[1] = y[1] /\ x[2] = y[2]
    BY <2>1, <2>2 DEF Abstract!Before
  <2> QED
    BY <2>1, <2>3
<1>4. {Abstract!FileAt(req, x).path : x \in Abstract!Positions(req)} = DOMAIN s.snap
  <2>1. ASSUME NEW x \in Abstract!Positions(req)
        PROVE  Abstract!FileAt(req, x).path \in DOMAIN s.snap
    BY <1>1, <2>1, RequestFiles DEF SessionOK
  <2> HIDE DEF req
  <2> QED
    BY <1>2, <2>1
<1>5. ASSUME NEW p \in DOMAIN s.snap
      PROVE  Abstract!FileAt(req, CHOOSE x \in Abstract!Positions(req) :
                                      Abstract!FileAt(req, x).path = p
                                          /\ Abstract!IsFirst(req, x)).content
                 = s.snap[p].md5
  <2>1. PICK x \in Abstract!Positions(req) :
            Is(p, x) /\ Abstract!FileAt(req, x).content = s.snap[p].md5
    BY <1>2
  <2>2. (CHOOSE y \in Abstract!Positions(req) : Is(p, y)) = x
    <3>1. Is(p, x) /\ \A y \in Abstract!Positions(req) : Is(p, y) => y = x
      BY <1>3, <2>1
    <3> HIDE DEF Is
    <3> QED
      BY <3>1
  <2> QED
    BY <2>1, <2>2
<1> HIDE DEF req
<1>6. Abstract!Promised(req) = [p \in DOMAIN s.snap |-> s.snap[p].md5]
  BY <1>4, <1>5 DEF Abstract!Promised
<1> QED
  BY <1>6 DEF req

-----------------------------------------------------------------------------
(* Sessions deal with their files in order *)

\* Nobody has dealt with anything initially.
LEMMA InitRequests == Init => SafeRequests
BY DEF Init, StoreInit, EmptyFcn, SafeRequests

\* A safe session packs nothing.
LEMMA NothingPacked ==
    ASSUME NEW s, SessionOK(s), NEW stored, SafeSession(s, stored)
    PROVE  ~Finalizing(s) /\ (ArgOpen(s) => ~ToPack(s))
<1>1. ASSUME ArgOpen(s)
      PROVE  ~ToPack(s)
  <2> DEFINE args == s.args
  <2>1. args \in Seq(Seq(File)) /\ args # <<>> /\ Head(args) # <<>>
    BY <1>1 DEF SessionOK, ArgOpen
  <2>2. CurrentFile(s) = Head(Head(args))
    BY DEF CurrentFile
  <2> HIDE DEF args
  <2>3. 1 \in DOMAIN args /\ 1 \in DOMAIN args[1] /\ Head(Head(args)) = args[1][1]
    <3>1. 1 \in DOMAIN args /\ Head(args) = args[1] /\ args[1] \in Seq(File)
      BY <2>1
    <3> QED
      BY <2>1, <3>1
  <2> QED
    BY <2>2, <2>3 DEF SafeSession, ToPack, args
<1> QED
  BY <1>1 DEF SafeSession, Finalizing

\* Every step keeps SafeRequests.
LEMMA NextRequests ==
    ASSUME Backend = "s3", NoPacks, TypeOK, SafeBlocks, SafeRequests, [Next]_vars
    PROVE  SafeRequests'
<1> DEFINE InOrder(s) == ArgsLeft(s) /\ Recorded(s)
           Carries(c, s, t) ==
               IF s.args = <<>>
               THEN /\ t.path = SnapshotPath(s.name)
                    /\ t.data = compressEncryptHMAC(c, SnapshotFile(s.snap))
               ELSE t.path[1] = "data"
           Kept == \A d \in DOMAIN put' : d \in DOMAIN put /\ put'[d] = put[d]
<1>1. /\ \A d \in DOMAIN sess : InOrder(sess[d])
      /\ \A d \in DOMAIN put : Carries(d, sess[d], put[d])
      /\ DOMAIN put \subseteq DOMAIN sess
  BY DEF SafeRequests, TypeOK
<1>2. ASSUME \A d \in DOMAIN sess' : InOrder(sess'[d]),
             \A d \in DOMAIN put' : Carries(d, sess'[d], put'[d])
      PROVE  SafeRequests'
  BY <1>2 DEF SafeRequests
<1> HIDE DEF InOrder, Carries
<1>3. ASSUME UNCHANGED vars
      PROVE  SafeRequests'
  BY <1>1, <1>2, <1>3 DEF vars
\* what is left to show when a client's session is replaced by s
<1>4. ASSUME NEW c \in DOMAIN sess, NEW s, SetSession(c, s), Kept, InOrder(s),
             c \notin DOMAIN put'
      PROVE  SafeRequests'
  <2>1. /\ \A d \in DOMAIN sess' : d \in DOMAIN sess /\ (sess'[d] = s \/ sess'[d] = sess[d])
        /\ \A d \in DOMAIN put' : sess'[d] = sess[d]
    BY <1>1, <1>4 DEF SetSession
  <2> QED
    BY <1>1, <1>2, <1>4, <2>1
\* when it ends
<1>5. ASSUME NEW c, EndSession(c), Kept, c \notin DOMAIN put'
      PROVE  SafeRequests'
  <2>1. /\ \A d \in DOMAIN sess' : d \in DOMAIN sess /\ sess'[d] = sess[d]
        /\ \A d \in DOMAIN put' : sess'[d] = sess[d]
    BY <1>1, <1>5 DEF EndSession, Without
  <2> QED
    BY <1>1, <1>2, <1>5, <2>1
\* and when it begins a put()
<1>6. ASSUME NEW c \in DOMAIN sess, NEW path, NEW data, PutStart(c, path, data),
             UNCHANGED sess, Carries(c, sess[c], Transfer(path, data))
      PROVE  SafeRequests'
  <2>1. \A d \in DOMAIN put' :
           \/ d = c /\ put'[d] = Transfer(path, data)
           \/ d \in DOMAIN put /\ put'[d] = put[d]
    BY <1>6 DEF PutStart, With
  <2> QED
    BY <1>1, <1>2, <1>6, <2>1
<1>7. ASSUME NEW c, NEW s, c \in DOMAIN sess, s = sess[c]
      PROVE  SessionOK(s) /\ ~Finalizing(s) /\ (ArgOpen(s) => ~ToPack(s))
  BY <1>7, NothingPacked DEF TypeOK, SafeBlocks
<1>8. ASSUME NEW c \in DOMAIN put, PutAbandon(c) \/ PutReturn(c)
      PROVE  Kept /\ c \notin DOMAIN put'
  BY <1>8 DEF PutAbandon, PutReturn, Without
\* a session that changes neither its arguments nor its snapshot
<1>9. ASSUME NEW c \in DOMAIN sess, NEW t, t.job = sess[c].job, t.args = sess[c].args,
             t.snap = sess[c].snap
      PROVE  InOrder(t)
  BY <1>1, <1>9, SameRequest DEF InOrder
<1>10. ASSUME NEW c \in Client, NEW n \in Name, NEW job \in Job, Backup(c, n, job)
       PROVE  SafeRequests'
  <2>1. InOrder(Session(n, job))
    BY FreshRequest DEF InOrder
  <2>2. UNCHANGED put /\ c \notin DOMAIN sess /\ sess' = With(sess, c, Session(n, job))
    BY <1>10 DEF Backup, storeVars
  <2>3. /\ \A d \in DOMAIN sess' :
              \/ sess'[d] = Session(n, job)
              \/ d \in DOMAIN sess /\ sess'[d] = sess[d]
        /\ \A d \in DOMAIN put' : sess'[d] = sess[d]
    BY <1>1, <2>2 DEF With
  <2> QED
    BY <1>1, <1>2, <2>1, <2>2, <2>3
<1>11. ASSUME NEW c \in Client, Signal(c)
       PROVE  SafeRequests'
  <2> DEFINE s == sess[c]
             t == [s EXCEPT !.cancelled = TRUE]
  <2>1. SessionOK(s) /\ c \in DOMAIN sess
    BY <1>11 DEF Signal, TypeOK
  <2>2. t.args = s.args /\ t.job = s.job /\ t.snap = s.snap /\ t.name = s.name
    BY <2>1 DEF SessionOK
  <2>3. /\ UNCHANGED put /\ DOMAIN sess' = DOMAIN sess
        /\ \A d \in DOMAIN sess : sess'[d] = IF d = c THEN t ELSE sess[d]
    BY <1>11 DEF Signal, storeVars
  <2> HIDE DEF t
  <2>4. InOrder(t) /\ \A d, u : Carries(d, s, u) <=> Carries(d, t, u)
    BY <1>9, <2>1, <2>2 DEF Carries
  <2> QED
    BY <1>1, <1>2, <2>1, <2>3, <2>4
<1>12. ASSUME NEW c \in Client, AddToPack(c) \/ FinalizePack(c)
       PROVE  FALSE
  BY <1>7, <1>12 DEF AddToPack, FinalizePack, Running
<1>13. ASSUME NEW c \in Client, UploadBlock(c)
       PROVE  SafeRequests'
  <2> DEFINE s == sess[c]
             id == NextBlockId(s)
             data == compressEncryptHMAC(c, Block(CurrentFile(s).comp, NextBlock(s)))
             t == [s EXCEPT !.ids = Append(@, id)]
  <2>1. SessionOK(s) /\ ArgOpen(s) /\ c \in DOMAIN sess /\ c \notin DOMAIN put
    BY <1>7, <1>13 DEF UploadBlock, Running, Uploading
  <2>2. CASE UNCHANGED put /\ SetSession(c, t)
    <3>1. t.args = s.args /\ t.job = s.job /\ t.snap = s.snap
      BY <2>1 DEF SessionOK
    <3> HIDE DEF t
    <3> QED
      BY <1>4, <1>9, <2>1, <2>2, <3>1
  <2>3. CASE UNCHANGED put /\ EndSession(c)
    BY <1>5, <2>1, <2>3
  <2>4. CASE UNCHANGED sess /\ PutStart(c, DataPath(id), data)
    <3>1. Carries(c, s, Transfer(DataPath(id), data))
      BY <2>1 DEF Carries, ArgOpen, Transfer, DataPath
    <3> QED
      BY <1>6, <2>1, <2>4, <3>1
  <2> QED
    BY <1>13, <2>2, <2>3, <2>4 DEF UploadBlock
<1>14. ASSUME NEW c \in Client, RecordFile(c)
       PROVE  SafeRequests'
  <2> DEFINE s == sess[c]
             f == CurrentFile(s)
             e == FileEntry(s.ids, f.comp, 0, 0, f.blocks)
             snap == addFileEntry(s.snap, f.path, e)
             t == [s EXCEPT !.args = NextFile(@), !.ids = <<>>, !.snap = snap]
  <2>1. /\ SessionOK(s) /\ ArgOpen(s) /\ c \in DOMAIN sess /\ c \notin DOMAIN put
        /\ UNCHANGED put /\ SetSession(c, t)
    BY <1>7, <1>14 DEF RecordFile, Running, Uploading, storeVars
  <2>2. e.md5 = f.blocks
    BY DEF FileEntry
  <2>3. t.args = NextFile(s.args) /\ t.job = s.job /\ t.snap = snap
    <3> HIDE DEF snap
    <3> QED
      BY <2>1 DEF SessionOK
  <2> HIDE DEF t, e
  <2>4. InOrder(t)
    BY <1>1, <2>1, <2>2, <2>3, RecordedNext DEF InOrder
  <2> QED
    BY <1>4, <2>1, <2>4
<1>15. ASSUME NEW c \in Client, NextArg(c)
       PROVE  SafeRequests'
  <2> DEFINE s == sess[c]
             t == [s EXCEPT !.args = Tail(@)]
  <2>1. /\ SessionOK(s) /\ ArgDone(s) /\ c \in DOMAIN sess /\ c \notin DOMAIN put
        /\ UNCHANGED put /\ SetSession(c, t)
    BY <1>7, <1>15 DEF NextArg, Running, storeVars, SetSession
  <2>2. t.args = Tail(s.args) /\ t.job = s.job /\ t.snap = s.snap
    BY <2>1 DEF SessionOK
  <2> HIDE DEF t
  <2>3. InOrder(t)
    BY <1>1, <2>1, <2>2, RecordedArg DEF InOrder
  <2> QED
    BY <1>4, <2>1, <2>3
<1>16. ASSUME NEW c \in Client, CommitSnapshot(c)
       PROVE  SafeRequests'
  <2> DEFINE data == compressEncryptHMAC(c, SnapshotFile(sess[c].snap))
  <2>1. /\ c \in DOMAIN sess /\ sess[c].args = <<>> /\ UNCHANGED sess
        /\ PutStart(c, SnapshotPath(sess[c].name), data)
    BY <1>16 DEF CommitSnapshot, Running
  <2>2. Carries(c, sess[c], Transfer(SnapshotPath(sess[c].name), data))
    BY <2>1 DEF Carries, Transfer
  <2> QED
    BY <1>6, <2>1, <2>2
<1>17. ASSUME NEW c \in Client, Transferring(c)
       PROVE  SafeRequests'
  <2>1. c \in DOMAIN put /\ PutStored(c) /\ UNCHANGED sess
    BY <1>17 DEF Transferring, Waiting, PutOpen, PutWrite, Writing, repoVars
  <2>2. /\ DOMAIN put' = DOMAIN put
        /\ \A d \in DOMAIN put : put'[d].path = put[d].path /\ put'[d].data = put[d].data
    BY <2>1 DEF PutStored, TypeOK, StoreOK, TransferOK
  <2>3. \A d \in DOMAIN put' : Carries(d, sess'[d], put'[d])
    BY <1>1, <2>1, <2>2 DEF Carries
  <2> QED
    BY <1>1, <1>2, <2>1, <2>3
<1>18. ASSUME NEW c \in Client, CancelTransfer(c) \/ TransferError(c)
       PROVE  SafeRequests'
  <2>1. c \in DOMAIN put /\ PutAbandon(c) /\ EndSession(c)
    BY <1>18 DEF CancelTransfer, TransferError, Waiting, PutCancel, PutError, Writing
  <2> QED
    BY <1>5, <1>8, <2>1
<1>19. ASSUME NEW c \in Client, Transferred(c)
       PROVE  SafeRequests'
  <2> DEFINE s == sess[c]
             t == [s EXCEPT !.ids = Append(@, NextBlockId(s))]
  <2>1. SessionOK(s) /\ ~Finalizing(s) /\ c \in DOMAIN sess /\ c \in DOMAIN put /\ PutReturn(c)
    BY <1>7, <1>19 DEF Transferred, Waiting
  <2>2. t.args = s.args /\ t.job = s.job /\ t.snap = s.snap
    BY <2>1 DEF SessionOK
  <2>3. SetSession(c, t) \/ EndSession(c)
    BY <1>19, <2>1 DEF Transferred
  <2> HIDE DEF t
  <2> QED
    BY <1>4, <1>5, <1>8, <1>9, <2>1, <2>2, <2>3
<1>20. ASSUME NEW c \in Client, Crash(c)
       PROVE  SafeRequests'
  BY <1>5, <1>8, <1>20 DEF Crash, PutAbandon
<1>21. ASSUME LateUpload
       PROVE  SafeRequests'
  <2>1. UNCHANGED <<put, sess>>
    BY <1>21 DEF LateUpload, PutLate, repoVars
  <2> QED
    BY <1>1, <1>2, <2>1
<1>22. ASSUME NEW c \in Client, Retry(c)
       PROVE  SafeRequests'
  <2>1. UNCHANGED <<put, sess>>
    BY <1>22, RetryKeeps DEF TypeOK
  <2> QED
    BY <1>1, <1>2, <2>1
<1> QED
  BY <1>3, <1>10, <1>11, <1>12, <1>13, <1>14, <1>15, <1>16, <1>17, <1>18, <1>19, <1>20, <1>21,
     <1>22
  DEF Next, Step

\* On S3, when no file is packed, every session has recorded the files it has
\* dealt with, each path with its first content, and commits just that.
THEOREM RequestsSafe ==
    ASSUME Backend = "s3", NoPacks
    PROVE  Spec => []SafeRequests
<1>1. TypeOK /\ SafeBlocks /\ SafeRequests /\ [Next]_vars => SafeRequests'
  BY NextRequests
<1> QED
  BY <1>1, InitRequests, TypeCorrect, BlocksSafe, PTL DEF Spec

-----------------------------------------------------------------------------
(* The refinement mapping *)

\* the content that a stored snapshot has on record
ContentOf(cells) ==
    LET snap == cells[1].pay.snap
    IN  [p \in DOMAIN snap |-> snap[p].md5]

\* the catalog as it can be read off the paths and the records
CatalogOf(fs) ==
    [n \in {m \in Name : SnapshotPath(m) \in DOMAIN fs} |-> ContentOf(fs[SnapshotPath(n)])]

LateOf(t) == [name |-> t.path[2], content |-> ContentOf(t.data)]

Mapped ==
    /\ Restored = CatalogOf(files)
    /\ LateSnapshots = {LateOf(t) : t \in {u \in late : u.path[1] = "snapshot"}}

\* What can be restored is what is on record.
LEMMA RestoredIsRecorded == SafeBlocks => Mapped
<1> SUFFICES ASSUME SafeBlocks PROVE Mapped
  OBVIOUS
<1>1. ASSUME NEW n
      PROVE  Committed(n) <=> SnapshotPath(n) \in DOMAIN files
  BY SafeSnapshotsLoad DEF Committed, get, VerifiesHMAC
<1>2. ASSUME NEW n, SnapshotPath(n) \in DOMAIN files
      PROVE  [p \in DOMAIN loadSnapshot(n) |-> downloadFile(loadSnapshot(n)[p])]
                 = ContentOf(files[SnapshotPath(n)])
  <2>1. SafeSnapshot(loadSnapshot(n), DOMAIN files)
    BY <1>2, SafeSnapshotsLoad
  <2>2. \A p \in DOMAIN loadSnapshot(n) :
            downloadFile(loadSnapshot(n)[p]) = loadSnapshot(n)[p].md5
    BY <2>1, SafeEntryRestores DEF SafeSnapshot
  <2>3. loadSnapshot(n) = files[SnapshotPath(n)][1].pay.snap
    BY <1>2 DEF loadSnapshot, get
  <2> QED
    BY <2>2, <2>3 DEF ContentOf
<1>3. Restored = CatalogOf(files)
  BY <1>1, <1>2 DEF Restored, CatalogOf
<1>4. LateSnapshots = {LateOf(t) : t \in {u \in late : u.path[1] = "snapshot"}}
  BY DEF LateSnapshots, LateOf, ContentOf
<1> QED
  BY <1>3, <1>4 DEF Mapped

\* Storing a data object leaves the catalog alone, storing a snapshot binds its
\* name.
LEMMA CatalogStored ==
    ASSUME NEW fs, NEW path, NEW cells
    PROVE  /\ path[1] = "data" => CatalogOf(With(fs, path, cells)) = CatalogOf(fs)
           /\ \A n \in Name :
                 path = SnapshotPath(n) =>
                     CatalogOf(With(fs, path, cells))
                         = Abstract!Bind(CatalogOf(fs), n, ContentOf(cells))
<1>1. \A n : SnapshotPath(n)[1] = "snapshot"
  BY DEF SnapshotPath
<1>2. \A m, n : SnapshotPath(m) = SnapshotPath(n) => m = n
  BY DEF SnapshotPath
<1> DEFINE new == With(fs, path, cells)
<1>3. /\ DOMAIN new = DOMAIN fs \cup {path} /\ new[path] = cells
      /\ \A p \in DOMAIN fs : p # path => new[p] = fs[p]
  BY DEF With
<1> HIDE DEF new
<1>4. ASSUME path[1] = "data"
      PROVE  CatalogOf(new) = CatalogOf(fs)
  <2>1. \A n : SnapshotPath(n) # path
    BY <1>1, <1>4
  <2>2. {m \in Name : SnapshotPath(m) \in DOMAIN new} = {m \in Name : SnapshotPath(m) \in DOMAIN fs}
    BY <1>3, <2>1
  <2>3. \A n \in {m \in Name : SnapshotPath(m) \in DOMAIN fs} :
            new[SnapshotPath(n)] = fs[SnapshotPath(n)]
    BY <1>3, <2>1
  <2> QED
    BY <2>2, <2>3 DEF CatalogOf
<1>5. ASSUME NEW n \in Name, path = SnapshotPath(n)
      PROVE  CatalogOf(new) = Abstract!Bind(CatalogOf(fs), n, ContentOf(cells))
  <2>1. {m \in Name : SnapshotPath(m) \in DOMAIN new} = DOMAIN CatalogOf(fs) \cup {n}
    BY <1>2, <1>3, <1>5 DEF CatalogOf
  <2>2. \A m \in DOMAIN CatalogOf(fs) \cup {n} :
            ContentOf(new[SnapshotPath(m)])
                = IF m = n THEN ContentOf(cells) ELSE CatalogOf(fs)[m]
    BY <1>2, <1>3, <1>5 DEF CatalogOf
  <2>3. CatalogOf(new) = [m \in DOMAIN CatalogOf(fs) \cup {n} |->
                             IF m = n THEN ContentOf(cells) ELSE CatalogOf(fs)[m]]
    BY <2>1, <2>2 DEF CatalogOf
  <2> QED
    BY <2>3 DEF Abstract!Bind
<1> QED
  BY <1>4, <1>5 DEF new

\* What a session is about to commit is what it was asked for.
LEMMA CommitIsPromised ==
    ASSUME TypeOK, SafeRequests, NEW c \in DOMAIN put, put[c].path[1] = "snapshot"
    PROVE  /\ put[c].path = SnapshotPath(sess[c].name) /\ sess[c].name \in Name
           /\ ContentOf(put[c].data) = Abstract!Promised(RequestOf(sess[c].job))
<1> DEFINE s == sess[c]
<1>1. SessionOK(s) /\ Recorded(s) /\ c \in DOMAIN sess
  BY DEF TypeOK, SafeRequests
<1>2. /\ s.args = <<>> /\ put[c].path = SnapshotPath(s.name)
      /\ put[c].data = compressEncryptHMAC(c, SnapshotFile(s.snap))
  BY DEF SafeRequests
<1>3. put[c].data[1].pay = SnapshotFile(s.snap)
  BY <1>2, SealVerifies, SealLengths
<1>4. ContentOf(put[c].data) = [p \in DOMAIN s.snap |-> s.snap[p].md5]
  BY <1>3 DEF ContentOf, SnapshotFile
<1> QED
  BY <1>1, <1>2, <1>4, RecordedAll DEF SessionOK

\* what a session is asked for
TaskOf(s) == [name |-> s.name, request |-> RequestOf(s.job)]

\* Every step is a step of the catalog or leaves it alone.
LEMMA StepRefines ==
    ASSUME Backend = "s3", NoPacks, TypeOK, SafeBlocks, SafeRequests, Mapped, Mapped',
           [Next]_vars
    PROVE  Abstract!CatalogNext \/ UNCHANGED Abstract!catVars
<1> DEFINE Goal == Abstract!CatalogNext \/ UNCHANGED Abstract!catVars
           SnapsOf(ts) == {LateOf(t) : t \in {u \in ts : u.path[1] = "snapshot"}}
<1>1. /\ Restored = CatalogOf(files) /\ Restored' = CatalogOf(files')
      /\ LateSnapshots = SnapsOf(late) /\ LateSnapshots' = SnapsOf(late')
  BY DEF Mapped
<1>2. /\ Tasks = [c \in DOMAIN sess |-> TaskOf(sess[c])]
      /\ Tasks' = [c \in DOMAIN sess' |-> TaskOf(sess'[c])]
  BY DEF Tasks, TaskOf
<1>3. DOMAIN put \subseteq DOMAIN sess /\ DOMAIN sess \subseteq Client
  BY DEF TypeOK
\* the three variables of the catalog are all that matters
<1>4. ASSUME UNCHANGED <<Restored, Tasks, LateSnapshots>>
      PROVE  Goal
  BY <1>4 DEF Abstract!catVars
<1>5. ASSUME DOMAIN sess' = DOMAIN sess,
             \A d \in DOMAIN sess : sess'[d].name = sess[d].name /\ sess'[d].job = sess[d].job
      PROVE  UNCHANGED Tasks
  <2>1. \A d \in DOMAIN sess : TaskOf(sess'[d]) = TaskOf(sess[d])
    BY <1>5 DEF TaskOf
  <2> QED
    BY <1>2, <1>5, <2>1
\* the request of a put() of a snapshot is for what its backup was asked for
<1>6. ASSUME NEW c \in DOMAIN put, put[c].path[1] = "snapshot"
      PROVE  /\ c \in Client /\ c \in DOMAIN Tasks
             /\ Tasks[c].name = sess[c].name /\ sess[c].name \in Name
             /\ put[c].path = SnapshotPath(Tasks[c].name)
             /\ ContentOf(put[c].data) = Abstract!Promised(Tasks[c].request)
  <2>1. /\ put[c].path = SnapshotPath(sess[c].name) /\ sess[c].name \in Name
        /\ ContentOf(put[c].data) = Abstract!Promised(RequestOf(sess[c].job))
    BY <1>6, CommitIsPromised
  <2>2. c \in DOMAIN Tasks /\ Tasks[c] = TaskOf(sess[c]) /\ c \in Client
    BY <1>2, <1>3
  <2>3. Tasks[c].name = sess[c].name /\ Tasks[c].request = RequestOf(sess[c].job)
    BY <2>2 DEF TaskOf
  <2> QED
    BY <2>1, <2>2, <2>3
<1>7. ASSUME NEW c \in DOMAIN put, NEW t, late' = late \cup {t}, t.path = put[c].path,
             t.data = put[c].data
      PROVE  LateSnapshots' \in {LateSnapshots, LateSnapshots \cup {Abstract!Unanswered(c)}}
  <2>1. CASE t.path[1] = "snapshot"
    <3>1. SnapsOf(late') = SnapsOf(late) \cup {LateOf(t)}
      BY <1>7, <2>1
    <3>2. t.path[2] = Tasks[c].name /\ ContentOf(t.data) = Abstract!Promised(Tasks[c].request)
      BY <1>6, <1>7, <2>1 DEF SnapshotPath
    <3>3. LateOf(t) = Abstract!Unanswered(c)
      BY <3>2 DEF LateOf, Abstract!Unanswered
    <3> QED
      BY <1>1, <3>1, <3>3
  <2>2. CASE t.path[1] # "snapshot"
    <3>1. SnapsOf(late') = SnapsOf(late)
      BY <1>7, <2>2
    <3> QED
      BY <1>1, <3>1
  <2> QED
    BY <2>1, <2>2
\* a session that goes on with the same job
<1>8. ASSUME NEW c \in DOMAIN sess, NEW s, SetSession(c, s), UNCHANGED <<files, late>>,
             s.name = sess[c].name, s.job = sess[c].job
      PROVE  Goal
  <2>1. /\ DOMAIN sess' = DOMAIN sess /\ sess'[c] = s
        /\ \A d \in DOMAIN sess : d # c => sess'[d] = sess[d]
    BY <1>8 DEF SetSession
  <2>2. \A d \in DOMAIN sess : sess'[d].name = sess[d].name /\ sess'[d].job = sess[d].job
    BY <1>8, <2>1
  <2>3. UNCHANGED <<Restored, LateSnapshots>>
    BY <1>1, <1>8
  <2> QED
    BY <1>4, <1>5, <2>1, <2>2, <2>3
\* one that ends
<1>9. ASSUME NEW c \in DOMAIN sess, EndSession(c), UNCHANGED files,
             LateSnapshots' \in {LateSnapshots, LateSnapshots \cup {Abstract!Unanswered(c)}}
      PROVE  Goal
  <2>1. DOMAIN sess' = DOMAIN sess \ {c} /\ \A d \in DOMAIN sess' : sess'[d] = sess[d]
    BY <1>9 DEF EndSession, Without
  <2>2. c \in DOMAIN Tasks /\ Tasks' = Abstract!Unbind(Tasks, c)
    BY <1>2, <2>1 DEF Abstract!Unbind
  <2>3. UNCHANGED Restored
    BY <1>1, <1>9
  <2>4. Abstract!End(c) /\ c \in Client
    BY <1>3, <1>9, <2>2, <2>3 DEF Abstract!End
  <2> QED
    BY <2>4 DEF Abstract!CatalogNext
\* one that ends with nothing on its way
<1>10. ASSUME NEW c \in DOMAIN sess, EndSession(c), UNCHANGED <<files, late>>
       PROVE  Goal
  <2>1. UNCHANGED LateSnapshots
    BY <1>1, <1>10
  <2> QED
    BY <1>9, <1>10, <2>1
\* one that ends with its transfer on its way
<1>11. ASSUME NEW c \in DOMAIN put, EndSession(c), PutAbandon(c)
       PROVE  Goal
  <2>1. /\ UNCHANGED files /\ c \in DOMAIN sess
        /\ late' = late \/ late' = late \cup {put[c]}
    BY <1>3, <1>11 DEF PutAbandon
  <2>2. LateSnapshots' \in {LateSnapshots, LateSnapshots \cup {Abstract!Unanswered(c)}}
    <3>1. CASE late' = late
      BY <1>1, <3>1
    <3>2. CASE late' = late \cup {put[c]}
      BY <1>7, <3>2
    <3> QED
      BY <2>1, <3>1, <3>2
  <2> QED
    BY <1>9, <1>11, <2>1, <2>2
\* a put() that begins is seen by nobody
<1>12. ASSUME NEW c, NEW path, NEW data, PutStart(c, path, data), UNCHANGED sess
       PROVE  Goal
  <2>1. UNCHANGED <<files, late>>
    BY <1>12 DEF PutStart
  <2> QED
    BY <1>1, <1>2, <1>4, <1>12, <2>1
<1>13. ASSUME NEW c \in DOMAIN sess
       PROVE  SessionOK(sess[c])
  BY <1>13 DEF TypeOK
<1>14. ASSUME NEW c \in DOMAIN sess
       PROVE  SessionOK(sess[c]) /\ ~Finalizing(sess[c])
                  /\ (ArgOpen(sess[c]) => ~ToPack(sess[c]))
  BY <1>14, NothingPacked DEF TypeOK, SafeBlocks
<1> HIDE DEF Goal, SnapsOf
<1>15. ASSUME NEW c \in Client, NEW n \in Name, NEW job \in Job, Backup(c, n, job)
       PROVE  Goal
  <2> DEFINE s == Session(n, job)
  <2>1. /\ c \notin DOMAIN sess /\ UNCHANGED <<files, put, late>> /\ sess' = With(sess, c, s)
    BY <1>15 DEF Backup, storeVars
  <2>2. /\ DOMAIN sess' = DOMAIN sess \cup {c} /\ sess'[c] = s
        /\ \A d \in DOMAIN sess : sess'[d] = sess[d]
    BY <2>1 DEF With
  <2>4. TaskOf(s) = [name |-> n, request |-> RequestOf(job)]
    BY DEF TaskOf, Session
  <2>5. c \notin DOMAIN Tasks
    BY <1>2, <2>1
  <2>6. Tasks' = Abstract!Bind(Tasks, c, [name |-> n, request |-> RequestOf(job)])
    <3> HIDE DEF s
    <3> QED
      BY <1>2, <2>1, <2>2, <2>4 DEF Abstract!Bind
  <2>7. UNCHANGED <<Restored, LateSnapshots>>
    BY <1>1, <2>1
  <2>8. Abstract!Begin(c, n, RequestOf(job))
    BY <2>5, <2>6, <2>7 DEF Abstract!Begin
  <2> QED
    BY <2>8 DEF Abstract!CatalogNext, Goal
<1>16. ASSUME NEW c \in Client, Signal(c)
       PROVE  Goal
  <2> DEFINE t == [sess[c] EXCEPT !.cancelled = TRUE]
  <2>1. SessionOK(sess[c]) /\ c \in DOMAIN sess
    BY <1>14, <1>16 DEF Signal
  <2>2. t.name = sess[c].name /\ t.job = sess[c].job
    BY <2>1 DEF SessionOK
  <2>3. /\ UNCHANGED <<files, put, late>> /\ DOMAIN sess' = DOMAIN sess
        /\ \A d \in DOMAIN sess : sess'[d] = IF d = c THEN t ELSE sess[d]
    BY <1>16 DEF Signal, storeVars
  <2> HIDE DEF t
  <2>4. \A d \in DOMAIN sess : sess'[d].name = sess[d].name /\ sess'[d].job = sess[d].job
    BY <2>2, <2>3
  <2>5. UNCHANGED <<Restored, LateSnapshots>>
    BY <1>1, <2>3
  <2> QED
    BY <1>4, <1>5, <2>3, <2>4, <2>5
<1>17. ASSUME NEW c \in Client, AddToPack(c) \/ FinalizePack(c)
       PROVE  FALSE
  BY <1>14, <1>17 DEF AddToPack, FinalizePack, Running
<1>18. ASSUME NEW c \in Client, UploadBlock(c)
       PROVE  Goal
  <2> DEFINE s == sess[c]
             id == NextBlockId(s)
             data == compressEncryptHMAC(c, Block(CurrentFile(s).comp, NextBlock(s)))
             t == [s EXCEPT !.ids = Append(@, id)]
  <2>1. c \in DOMAIN sess /\ SessionOK(s)
    BY <1>13, <1>18 DEF UploadBlock, Running
  <2>2. t.name = s.name /\ t.job = s.job
    BY <2>1 DEF SessionOK
  <2>3. \/ UNCHANGED <<files, put, late>> /\ SetSession(c, t)
        \/ UNCHANGED <<files, put, late>> /\ EndSession(c)
        \/ UNCHANGED sess /\ PutStart(c, DataPath(id), data)
    BY <1>18 DEF UploadBlock
  <2> HIDE DEF t, data, id
  <2>4. CASE UNCHANGED <<files, put, late>> /\ SetSession(c, t)
    BY <1>8, <2>1, <2>2, <2>4
  <2>5. CASE UNCHANGED <<files, put, late>> /\ EndSession(c)
    BY <1>10, <2>1, <2>5
  <2>6. CASE UNCHANGED sess /\ PutStart(c, DataPath(id), data)
    BY <1>12, <2>1, <2>6
  <2> QED
    BY <2>3, <2>4, <2>5, <2>6
<1>19. ASSUME NEW c \in Client, RecordFile(c) \/ NextArg(c)
       PROVE  Goal
  <2>1. /\ c \in DOMAIN sess /\ SessionOK(sess[c])
        /\ UNCHANGED <<files, put, late>>
    BY <1>13, <1>19 DEF RecordFile, NextArg, Running, storeVars
  <2>2. PICK s : SetSession(c, s) /\ s.name = sess[c].name /\ s.job = sess[c].job
    <3>1. CASE RecordFile(c)
      <4> DEFINE f == CurrentFile(sess[c])
                 snap == addFileEntry(sess[c].snap, f.path,
                             FileEntry(sess[c].ids, f.comp, 0, 0, f.blocks))
                 t == [sess[c] EXCEPT !.args = NextFile(@), !.ids = <<>>, !.snap = snap]
      <4>1. SetSession(c, t)
        BY <3>1 DEF RecordFile
      <4>2. t.name = sess[c].name /\ t.job = sess[c].job
        <5> HIDE DEF snap
        <5> QED
          BY <2>1 DEF SessionOK
      <4> HIDE DEF t
      <4> QED
        BY <4>1, <4>2
    <3>2. CASE NextArg(c)
      <4> DEFINE t == [sess[c] EXCEPT !.args = Tail(@)]
      <4>1. SetSession(c, t)
        BY <3>2 DEF NextArg, SetSession
      <4>2. t.name = sess[c].name /\ t.job = sess[c].job
        BY <2>1 DEF SessionOK
      <4> HIDE DEF t
      <4> QED
        BY <4>1, <4>2
    <3> QED
      BY <1>19, <3>1, <3>2
  <2> QED
    BY <1>8, <2>1, <2>2
<1>20. ASSUME NEW c \in Client, CommitSnapshot(c)
       PROVE  Goal
  BY <1>12, <1>20 DEF CommitSnapshot, Running
<1>21. ASSUME NEW c \in Client, Transferring(c)
       PROVE  Goal
  <2>1. c \in DOMAIN put /\ PutStored(c) /\ UNCHANGED sess
    BY <1>21 DEF Transferring, Waiting, PutOpen, PutWrite, Writing, repoVars
  <2>2. files' = With(files, put[c].path, put[c].data) /\ UNCHANGED late
    BY <2>1 DEF PutStored
  <2>3. UNCHANGED <<Tasks, LateSnapshots>>
    BY <1>1, <1>2, <2>1, <2>2
  <2>4. CASE put[c].path[1] = "data"
    <3>1. UNCHANGED Restored
      BY <1>1, <2>2, <2>4, CatalogStored
    <3> QED
      BY <1>4, <2>3, <3>1
  <2>5. CASE put[c].path[1] = "snapshot"
    <3>1. Restored' = Abstract!Bind(Restored, Tasks[c].name,
                                    Abstract!Promised(Tasks[c].request))
      BY <1>1, <1>6, <2>1, <2>2, <2>5, CatalogStored
    <3>2. Abstract!Commit(c) /\ c \in Client
      BY <1>6, <2>1, <2>3, <2>5, <3>1 DEF Abstract!Commit
    <3> QED
      BY <3>2 DEF Abstract!CatalogNext, Goal
  <2> QED
    BY <2>1, <2>4, <2>5 DEF SafeRequests, SnapshotPath
<1>22. ASSUME NEW c \in Client, CancelTransfer(c) \/ TransferError(c)
       PROVE  Goal
  <2>1. c \in DOMAIN put /\ PutAbandon(c) /\ EndSession(c)
    BY <1>22 DEF CancelTransfer, TransferError, Waiting, PutCancel, PutError, Writing
  <2> QED
    BY <1>11, <2>1
<1>23. ASSUME NEW c \in Client, Transferred(c)
       PROVE  Goal
  <2> DEFINE s == sess[c]
             t == [s EXCEPT !.ids = Append(@, NextBlockId(s))]
  <2>1. /\ SessionOK(s) /\ ~Finalizing(s) /\ c \in DOMAIN sess /\ c \in DOMAIN put
        /\ UNCHANGED <<files, late>>
    BY <1>14, <1>23 DEF Transferred, Waiting, PutReturn
  <2>2. t.name = s.name /\ t.job = s.job
    BY <2>1 DEF SessionOK
  <2>3. SetSession(c, t) \/ EndSession(c)
    BY <1>23, <2>1 DEF Transferred
  <2> HIDE DEF t
  <2> QED
    BY <1>8, <1>10, <2>1, <2>2, <2>3
<1>24. ASSUME NEW c \in Client, Crash(c)
       PROVE  Goal
  BY <1>10, <1>11, <1>24 DEF Crash, PutAbandon
<1>25. ASSUME LateUpload
       PROVE  Goal
  <2>1. PICK t \in late : PutLate(t) /\ UNCHANGED sess
    BY <1>25 DEF LateUpload, repoVars
  <2>2. /\ files' = With(files, t.path, t.data) /\ UNCHANGED put
        /\ late' = late \/ late' = late \ {t}
    BY <2>1 DEF PutLate
  <2>3. UNCHANGED Tasks
    BY <1>2, <2>1
  <2>4. CASE t.path[1] = "data"
    <3>1. UNCHANGED Restored
      BY <1>1, <2>2, <2>4, CatalogStored
    <3>2. SnapsOf(late') = SnapsOf(late)
      BY <2>2, <2>4 DEF SnapsOf
    <3> QED
      BY <1>1, <1>4, <2>3, <3>1, <3>2
  <2>5. CASE t.path \in {"snapshot"} \X Name
    <3> DEFINE r == LateOf(t)
    <3>1. /\ t.path = SnapshotPath(t.path[2]) /\ t.path[2] \in Name
          /\ t.path[1] = "snapshot"
      BY <2>5 DEF SnapshotPath
    <3>2. r \in LateSnapshots
      BY <1>1, <2>1, <3>1 DEF SnapsOf
    <3>3. r.name = t.path[2] /\ r.content = ContentOf(t.data)
      BY DEF LateOf
    <3> HIDE DEF r
    <3>4. Restored' = Abstract!Bind(Restored, r.name, r.content)
      BY <1>1, <2>2, <3>1, <3>3, CatalogStored
    <3>5. LateSnapshots' \in {LateSnapshots, LateSnapshots \ {r}}
      <4>1. SnapsOf(late') = SnapsOf(late) \/ SnapsOf(late') = SnapsOf(late) \ {r}
        <5>1. CASE late' = late
          BY <5>1
        <5>2. CASE late' = late \ {t}
          <6>1. SnapsOf(late') \subseteq SnapsOf(late)
            BY <5>2 DEF SnapsOf
          <6>2. SnapsOf(late) \ {r} \subseteq SnapsOf(late')
            BY <5>2 DEF SnapsOf, r
          <6> QED
            BY <6>1, <6>2
        <5> QED
          BY <2>2, <5>1, <5>2
      <4> QED
        BY <1>1, <4>1
    <3>6. Abstract!Appear(r)
      BY <2>3, <3>2, <3>4, <3>5 DEF Abstract!Appear
    <3> QED
      BY <3>2, <3>6 DEF Abstract!CatalogNext, Goal
  <2>6. PathOK(t.path)
    BY <2>1 DEF TypeOK, StoreOK, TransferOK
  <2> QED
    BY <2>4, <2>5, <2>6 DEF PathOK
<1>26. ASSUME UNCHANGED vars
       PROVE  Goal
  <2>1. UNCHANGED <<files, put, late, sess>>
    BY <1>26 DEF vars
  <2> QED
    BY <1>1, <1>2, <1>4, <2>1
<1>27. ASSUME NEW c \in Client, Retry(c)
       PROVE  Goal
  <2>1. c \in DOMAIN put /\ UNCHANGED <<files, sess>>
    BY <1>27, RetryKeeps DEF TypeOK
  <2>2. PICK t : late' = late \cup {t} /\ t.path = put[c].path /\ t.data = put[c].data
    BY <1>27, RetryKeeps DEF TypeOK
  <2>3. UNCHANGED <<Restored, Tasks>>
    BY <1>1, <1>2, <2>1
  <2>4. CASE UNCHANGED LateSnapshots
    BY <1>4, <2>3, <2>4
  <2>5. CASE LateSnapshots' = LateSnapshots \cup {Abstract!Unanswered(c)}
    <3>1. c \in DOMAIN Tasks
      BY <1>2, <1>3, <2>1
    <3>2. Abstract!Retry(c)
      BY <2>3, <2>5, <3>1 DEF Abstract!Retry
    <3> QED
      BY <3>2 DEF Abstract!CatalogNext, Goal
  <2> QED
    BY <1>7, <2>1, <2>2, <2>4, <2>5
<1>28. Goal
  BY <1>15, <1>16, <1>17, <1>18, <1>19, <1>20, <1>21, <1>22, <1>23, <1>24, <1>25, <1>26, <1>27
  DEF Next, Step
<1> QED
  BY <1>28 DEF Goal

\* On S3, when no file is packed, the repository implements the catalog,
\* whatever backups run at the same time, are cancelled, fail, crash, or are
\* carried out after all long after they failed.
THEOREM ImplementsCatalog ==
    ASSUME Backend = "s3", NoPacks
    PROVE  Spec => RefinesCatalog
<1>1. Init => Abstract!CatalogInit
  <2> SUFFICES ASSUME Init PROVE Abstract!CatalogInit
    OBVIOUS
  <2>1. files = EmptyFcn /\ put = EmptyFcn /\ late = {} /\ sess = EmptyFcn
    BY DEF Init, StoreInit
  <2>2. {n \in Name : Committed(n)} = {}
    BY <2>1 DEF Committed, get, VerifiesHMAC, EmptyFcn
  <2>3. Restored = [n \in {} |-> n]
    BY <2>2 DEF Restored
  <2>4. Tasks = [c \in {} |-> c]
    BY <2>1 DEF Tasks, EmptyFcn
  <2>5. LateSnapshots = {}
    BY <2>1 DEF LateSnapshots
  <2> QED
    BY <2>3, <2>4, <2>5 DEF Abstract!CatalogInit
<1>2. TypeOK /\ SafeBlocks /\ SafeRequests /\ Mapped /\ Mapped' /\ [Next]_vars
          => [Abstract!CatalogNext]_(Abstract!catVars)
  BY StepRefines
<1> QED
  BY <1>1, <1>2, TypeCorrect, BlocksSafe, RequestsSafe, RestoredIsRecorded, PTL
  DEF Spec, RefinesCatalog, Abstract!CatalogSpec

=============================================================================
