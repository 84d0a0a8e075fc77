--------------------------- MODULE DataRoot_proofs ---------------------------
(***************************************************************************)
(* Proofs about the data root, for any number of calls and photos, any     *)
(* exceptions and any process deaths.  They assume CloseReturns.           *)
(*                                                                         *)
(* PathInv says who holds its queue, MeetInv which calls a restore has     *)
(* overtaken; from them, nobody else moves while a restore is between its  *)
(* renames.  DataInv says who owns a file without a row, and that what a   *)
(* rollback would put back is whole at every moment, but for the photos of *)
(* the set X of the calls that were overtaken.  StageInv says that two     *)
(* calls of one id do not both put a file there.  TurnInv says that the    *)
(* shared queue is the end of the history of the calls that entered it;    *)
(* from it, SnapInv says what a snapshot holds of them.                    *)
(***************************************************************************)
EXTENDS DataRoot, SequenceTheorems, TLAPS

AddingSteps  == Staging \cup {"look", "queued", "open", "commit", "close"}
PackingSteps == {"queued", "rows", "vacuum", "files", "save"}
Outside      == Ended \cup {"new"}

\* A call stays on the path of its kind; only one that adds a photo cleans up.
OnPath(j) ==
  /\ Kind[j] \in Attaching => at[j] \in AddingSteps \cup Outside \cup {"cleanup"}
  /\ Kind[j] = "backup" => at[j] \in PackingSteps \cup Outside
  /\ Kind[j] = "restore" =>
       at[j] \in PackingSteps \cup {"prepare"} \cup Swapping \cup Outside

\* The steps a call takes at the head of its queue.
Holding(j) ==
  IF Kind[j] = "agenda" THEN at[j] \in {"open", "commit", "close"}
                        ELSE at[j] \notin Outside \cup {"queued"}

PathInv ==
  /\ at \in [Jobs -> Steps \cup Outside \cup {"cleanup"}]
  /\ queue \in [Lanes -> Seq(Jobs \X {"call", "nested"})]
  /\ \A j \in Jobs : OnPath(j) /\ (Holding(j) => Running(j))

\* The photos X of calls beside a restore, and B of assets beside a backup.
MeetInv(X, B) ==
  /\ \A r, k \in Jobs : Kind[r] = "restore" /\ Meets(r, k) => Photo[k] \in X
  /\ \A b, k \in Jobs : Kind[k] = "inventory" /\ Meets(b, k) => Photo[k] \in B[b]

\* The call has put a file in its place that has no row yet.
Pending(j) ==
  \/ Kind[j] = "agenda" /\ at[j] \in {"queued", "open", "commit", "cleanup"}
  \/ Kind[j] = "evidence" /\ at[j] \in {"open", "commit", "cleanup"}
  \/ Kind[j] = "inventory" /\ at[j] \in {"commit", "cleanup"}

\* The call has the database open and no row written yet.
Opened(j) ==
  \/ at[j] = "commit"
  \/ Kind[j] = "inventory" /\ at[j] \in Staging \cup {"look"}

\* The call has a .part, or another call of its id has taken it away.
Staged(j) == at[j] \in {"verify", "finalize"}

\* The restore is between its first rename and its end.
Midway(j) == at[j] \in Swapping \ {"old_db"}

\* What a rollback would leave in place.
KeptRows  == IF old.rows = NoFile THEN active.rows ELSE old.rows
KeptFiles == IF old.files = NoFile THEN active.files ELSE old.files

DataTyped ==
  /\ active \in [rows : Sets, files : Sets]
  /\ old \in [rows : Sets, files : Sets]
  /\ temp \subseteq Photos
  /\ conn \in [Jobs -> {"none", "active", "old", "gone"}]
  /\ package \in [Jobs -> [rows : SUBSET Photos, files : SUBSET Photos]]
  /\ incoming \in [Jobs -> [rows : SUBSET Photos, files : SUBSET Photos]]
  /\ saved \subseteq Jobs
  /\ crashes \in Nat

KeptInv(X) ==
  KeptRows # NoFile /\ KeptFiles # NoFile /\ KeptRows \ X \subseteq KeptFiles

\* How far the swap is tells what is moved and what is activated.
SwapAt(X, j) ==
  /\ at[j] = "old_atts" => old.rows # NoFile /\ old.files = NoFile
  /\ Midway(j) /\ at[j] # "old_atts" => old.rows # NoFile /\ old.files # NoFile
  /\ at[j] \in {"new_atts", "check", "notify", "reconciling", "complete"} =>
       active.rows # NoFile /\ active.rows \ X = incoming[j].rows \ X
  /\ at[j] \in {"check", "notify", "reconciling", "complete"} =>
       active.files # NoFile /\ active.files \ X = incoming[j].files \ X

Calm == \A j \in Jobs : ~Midway(j)

SwapInv(X) == (Calm => old = Nothing) /\ \A j \in Jobs : SwapAt(X, j)

\* A file without a row belongs to one call.
OwnInv(X) ==
  /\ \A j \in Jobs : Pending(j) /\ Photo[j] \notin X =>
       Photo[j] \in active.files /\ Photo[j] \notin active.rows
  /\ \A j, k \in Jobs : Pending(j) /\ Pending(k) /\ j # k /\ Photo[j] \notin X =>
       Photo[j] # Photo[k]

ConnInv(X) ==
  \A j \in Jobs :
    /\ conn[j] = "old" => ~Calm
    /\ conn[j] = "active" => active.rows # NoFile
    /\ Opened(j) /\ Photo[j] \notin X => conn[j] = "active"

\* The manifest lists the rows, but for assets added in between.
Lists(files, rows, extra) == files \subseteq rows /\ rows \subseteq files \cup extra

\* How far a backup is tells what its package holds.
PackAt(B, j) ==
  /\ at[j] = "vacuum" => Lists(package[j].files, active.rows, B[j])
  /\ at[j] \in {"files", "save"} =>
       Lists(package[j].files, package[j].rows, B[j])
  /\ j \in saved => /\ Lists(package[j].files, package[j].rows, B[j])
                    /\ at[j] \in Swapping \cup Ended

PackInv(B) == \A j \in Jobs : Restorable(incoming[j]) /\ PackAt(B, j)

\* If the process never died, what is left over still has its call.
LeftInv(X) ==
  crashes = 0 =>
    /\ \A p \in (KeptFiles \ KeptRows) \ X :
         \E j \in Jobs : Pending(j) /\ Photo[j] = p
    /\ \A p \in temp : \E j \in Jobs : Staged(j) /\ Photo[j] = p

\* A photo whose row is written stays where a rollback would leave it, or is
\* in the safety package of a restore; that package has the rows of its swap.
AckAt(X, j) ==
  /\ Kind[j] \in Attaching /\ at[j] \in {"close", "done"} =>
       \/ Photo[j] \in X
       \/ Photo[j] \in KeptRows
       \/ \E r \in saved : Kind[r] = "restore" /\ Photo[j] \in package[r].rows
  /\ Kind[j] = "restore" /\ at[j] \in {"files", "save"} \cup Swapping =>
       KeptRows \ X \subseteq package[j].rows
  /\ at[j] \in Swapping => j \in saved

AckInv(X) == \A j \in Jobs : AckAt(X, j)

DataInv(X, B) ==
  /\ DataTyped /\ KeptInv(X) /\ SwapInv(X) /\ OwnInv(X) /\ ConnInv(X) /\ PackInv(B)
  /\ LeftInv(X) /\ AckInv(X)

\* Under one id, at most two calls of a log are under way.
TwoInv ==
  \A i, j, k \in {m \in Jobs : Kind[m] = "agenda" /\ UnderWay(m)} :
    Photo[i] = Photo[j] /\ Photo[j] = Photo[k] => i = j \/ j = k \/ i = k

\* A rename that can still succeed, or could once a .part is written, finds
\* its name free.
StageInv(X) ==
  \A k \in Jobs : at[k] = "finalize" /\ Photo[k] \notin X =>
    /\ Photo[k] \in temp => Photo[k] \notin active.files
    /\ \A m \in Jobs : at[m] = "stage" /\ Photo[m] = Photo[k] =>
         Photo[k] \notin active.files

IInv(X, B) ==
  PathInv /\ MeetInv(X, B) /\ TwoInv /\ StageInv(X) /\ DataInv(X, B)

-----------------------------------------------------------------------------
(* The paths of the calls. *)

\* A path names every step once, so a step has one place in it.
LEMMA PositionIs ==
  ASSUME NEW path, NEW i \in DOMAIN path,
         \A m, n \in DOMAIN path : path[m] = path[n] => m = n
  PROVE  (CHOOSE n \in DOMAIN path : path[n] = path[i]) = i
OBVIOUS

\* The places of the elements when three sequences are put together.
LEMMA ThreeParts ==
  ASSUME NEW S, NEW a \in Seq(S), NEW b \in Seq(S), NEW c \in Seq(S),
         Len(a) = 2, Len(b) = 4, Len(c) = 8
  PROVE  LET d == (a \o b) \o c IN
         /\ DOMAIN d = 1..14 /\ Len(d) = 14
         /\ d[1] = a[1] /\ d[2] = a[2]
         /\ d[3] = b[1] /\ d[4] = b[2] /\ d[5] = b[3] /\ d[6] = b[4]
         /\ d[7] = c[1] /\ d[8] = c[2] /\ d[9] = c[3] /\ d[10] = c[4]
         /\ d[11] = c[5] /\ d[12] = c[6] /\ d[13] = c[7] /\ d[14] = c[8]
<1>1. /\ a \o b \in Seq(S) /\ Len(a \o b) = 6
      /\ \A i \in 1..6 : (a \o b)[i] = IF i <= 2 THEN a[i] ELSE b[i - 2]
  <2>1. /\ a \o b \in Seq(S) /\ Len(a \o b) = Len(a) + Len(b)
        /\ \A i \in 1..(Len(a) + Len(b)) :
             (a \o b)[i] = IF i <= Len(a) THEN a[i] ELSE b[i - Len(a)]
    BY ONLY ConcatProperties, a \in Seq(S), b \in Seq(S)
  <2>2. Len(a) + Len(b) = 6
    OBVIOUS
  <2> QED  BY <2>1, <2>2
<1> DEFINE ab == a \o b
           d == ab \o c
<1>2. /\ d \in Seq(S) /\ Len(d) = 14
      /\ \A i \in 1..14 : d[i] = IF i <= 6 THEN ab[i] ELSE c[i - 6]
  <2> HIDE DEF ab
  <2>1. ab \in Seq(S) /\ Len(ab) = 6
    BY <1>1 DEF ab
  <2>2. /\ ab \o c \in Seq(S) /\ Len(ab \o c) = Len(ab) + Len(c)
        /\ \A i \in 1..(Len(ab) + Len(c)) :
             (ab \o c)[i] = IF i <= Len(ab) THEN ab[i] ELSE c[i - Len(ab)]
    BY ONLY ConcatProperties, <2>1, c \in Seq(S)
  <2>3. Len(ab) + Len(c) = 14
    BY <2>1
  <2> QED  BY <2>1, <2>2, <2>3
<1>3. \A i \in 1..6 : ab[i] = IF i <= 2 THEN a[i] ELSE b[i - 2]
  BY <1>1
<1>4. (a \o b) \o c = d
  OBVIOUS
<1> HIDE DEF ab, d
<1>5. DOMAIN d = 1..14
  BY <1>2
<1>6. /\ d[1] = ab[1] /\ d[2] = ab[2] /\ d[3] = ab[3] /\ d[4] = ab[4]
      /\ d[5] = ab[5] /\ d[6] = ab[6]
      /\ d[7] = c[1] /\ d[8] = c[2] /\ d[9] = c[3] /\ d[10] = c[4]
      /\ d[11] = c[5] /\ d[12] = c[6] /\ d[13] = c[7] /\ d[14] = c[8]
  BY <1>2
<1>7. /\ ab[1] = a[1] /\ ab[2] = a[2]
      /\ ab[3] = b[1] /\ ab[4] = b[2] /\ ab[5] = b[3] /\ ab[6] = b[4]
  BY <1>3
<1> QED
  BY <1>2, <1>4, <1>5, <1>6, <1>7

\* The steps of photos of a log, each with the one that follows it.
LEMMA AgendaPath ==
  ASSUME NEW j \in Jobs, Kind[j] = "agenda"
  PROVE  /\ Path[Kind[j]][1] = "look"
         /\ at[j] = "look" => After(j) = "stage"
         /\ at[j] = "stage" => After(j) = "verify"
         /\ at[j] = "verify" => After(j) = "finalize"
         /\ at[j] = "finalize" => After(j) = "queued"
         /\ at[j] = "queued" => After(j) = "open"
         /\ at[j] = "open" => After(j) = "commit"
         /\ at[j] = "commit" => After(j) = "close"
         /\ at[j] = "close" => After(j) = "done"
         /\ at[j] \in AddingSteps =>
              (OwnsFile(j) <=> at[j] \in {"queued", "open", "commit", "close"})
<1> DEFINE path == Path[Kind[j]]
<1>1. /\ DOMAIN path = 1..8 /\ Len(path) = 8
      /\ path[1] = "look"
      /\ path[2] = "stage"
      /\ path[3] = "verify"
      /\ path[4] = "finalize"
      /\ path[5] = "queued"
      /\ path[6] = "open"
      /\ path[7] = "commit"
      /\ path[8] = "close"
  BY DEF Path, AttachAgendaPhotos
<1> HIDE DEF path
<1>2. \A m, n \in 1..8 : path[m] = path[n] => m = n
  BY <1>1
<1>3. \A i \in 1..8 : Position(j, path[i]) = i
  BY <1>1, <1>2, PositionIs DEF Position, path
<1>4. \A i \in 1..8 : at[j] = path[i] => After(j) = IF i = 8 THEN "done" ELSE path[i + 1]
  BY <1>1, <1>3 DEF After, path
<1>5. /\ Position(j, "look") = 1
      /\ Position(j, "stage") = 2
      /\ Position(j, "verify") = 3
      /\ Position(j, "finalize") = 4
      /\ Position(j, "queued") = 5
      /\ Position(j, "open") = 6
      /\ Position(j, "commit") = 7
      /\ Position(j, "close") = 8
  BY <1>1, <1>3
<1> QED
  BY <1>1, <1>4, <1>5 DEF OwnsFile, Attaching, Steps, Staging, AddingSteps, path

\* The steps of evidence, each with the one that follows it.
LEMMA EvidencePath ==
  ASSUME NEW j \in Jobs, Kind[j] = "evidence"
  PROVE  /\ Path[Kind[j]][1] = "queued"
         /\ at[j] = "queued" => After(j) = "look"
         /\ at[j] = "look" => After(j) = "stage"
         /\ at[j] = "stage" => After(j) = "verify"
         /\ at[j] = "verify" => After(j) = "finalize"
         /\ at[j] = "finalize" => After(j) = "open"
         /\ at[j] = "open" => After(j) = "commit"
         /\ at[j] = "commit" => After(j) = "close"
         /\ at[j] = "close" => After(j) = "done"
         /\ at[j] \in AddingSteps =>
              (OwnsFile(j) <=> at[j] \in {"open", "commit", "close"})
<1> DEFINE path == Path[Kind[j]]
<1>1. /\ DOMAIN path = 1..8 /\ Len(path) = 8
      /\ path[1] = "queued"
      /\ path[2] = "look"
      /\ path[3] = "stage"
      /\ path[4] = "verify"
      /\ path[5] = "finalize"
      /\ path[6] = "open"
      /\ path[7] = "commit"
      /\ path[8] = "close"
  BY DEF Path, AttachEvidenceBatch
<1> HIDE DEF path
<1>2. \A m, n \in 1..8 : path[m] = path[n] => m = n
  BY <1>1
<1>3. \A i \in 1..8 : Position(j, path[i]) = i
  BY <1>1, <1>2, PositionIs DEF Position, path
<1>4. \A i \in 1..8 : at[j] = path[i] => After(j) = IF i = 8 THEN "done" ELSE path[i + 1]
  BY <1>1, <1>3 DEF After, path
<1>5. /\ Position(j, "queued") = 1
      /\ Position(j, "look") = 2
      /\ Position(j, "stage") = 3
      /\ Position(j, "verify") = 4
      /\ Position(j, "finalize") = 5
      /\ Position(j, "open") = 6
      /\ Position(j, "commit") = 7
      /\ Position(j, "close") = 8
  BY <1>1, <1>3
<1> QED
  BY <1>1, <1>4, <1>5 DEF OwnsFile, Attaching, Steps, Staging, AddingSteps, path

\* The steps of an asset photo, each with the one that follows it.
LEMMA InventoryPath ==
  ASSUME NEW j \in Jobs, Kind[j] = "inventory"
  PROVE  /\ Path[Kind[j]][1] = "queued"
         /\ at[j] = "queued" => After(j) = "open"
         /\ at[j] = "open" => After(j) = "look"
         /\ at[j] = "look" => After(j) = "stage"
         /\ at[j] = "stage" => After(j) = "verify"
         /\ at[j] = "verify" => After(j) = "finalize"
         /\ at[j] = "finalize" => After(j) = "commit"
         /\ at[j] = "commit" => After(j) = "close"
         /\ at[j] = "close" => After(j) = "done"
         /\ at[j] \in AddingSteps =>
              (OwnsFile(j) <=> at[j] \in {"commit", "close"})
<1> DEFINE path == Path[Kind[j]]
<1>1. /\ DOMAIN path = 1..8 /\ Len(path) = 8
      /\ path[1] = "queued"
      /\ path[2] = "open"
      /\ path[3] = "look"
      /\ path[4] = "stage"
      /\ path[5] = "verify"
      /\ path[6] = "finalize"
      /\ path[7] = "commit"
      /\ path[8] = "close"
  BY DEF Path, AddOrReplaceAssetPhoto
<1> HIDE DEF path
<1>2. \A m, n \in 1..8 : path[m] = path[n] => m = n
  BY <1>1
<1>3. \A i \in 1..8 : Position(j, path[i]) = i
  BY <1>1, <1>2, PositionIs DEF Position, path
<1>4. \A i \in 1..8 : at[j] = path[i] => After(j) = IF i = 8 THEN "done" ELSE path[i + 1]
  BY <1>1, <1>3 DEF After, path
<1>5. /\ Position(j, "queued") = 1
      /\ Position(j, "open") = 2
      /\ Position(j, "look") = 3
      /\ Position(j, "stage") = 4
      /\ Position(j, "verify") = 5
      /\ Position(j, "finalize") = 6
      /\ Position(j, "commit") = 7
      /\ Position(j, "close") = 8
  BY <1>1, <1>3
<1> QED
  BY <1>1, <1>4, <1>5 DEF OwnsFile, Attaching, Steps, Staging, AddingSteps, path

\* The steps of a backup, each with the one that follows it.
LEMMA BackupPath ==
  ASSUME NEW j \in Jobs, Kind[j] = "backup"
  PROVE  /\ Path[Kind[j]][1] = "queued"
         /\ at[j] = "queued" => After(j) = "rows"
         /\ at[j] = "rows" => After(j) = "vacuum"
         /\ at[j] = "vacuum" => After(j) = "files"
         /\ at[j] = "files" => After(j) = "save"
         /\ at[j] = "save" => After(j) = "done"
<1> DEFINE path == Path[Kind[j]]
<1> DEFINE inside == <<"rows", "vacuum", "files", "save">>
<1>a. path = <<"queued">> \o inside
  BY DEF Path, CreateBackup, CreateBackupInside
<1>b. <<"queued">> \in Seq(Steps) /\ inside \in Seq(Steps)
  BY DEF Steps, Staging
<1>c. /\ Len(path) = 5 /\ path \in Seq(Steps)
      /\ \A i \in 1..5 : path[i] = IF i <= 1 THEN <<"queued">>[i] ELSE inside[i - 1]
  BY <1>a, <1>b, ConcatProperties
<1>1. /\ DOMAIN path = 1..5 /\ Len(path) = 5
      /\ path[1] = "queued"
      /\ path[2] = "rows"
      /\ path[3] = "vacuum"
      /\ path[4] = "files"
      /\ path[5] = "save"
  BY <1>c
<1> HIDE DEF path
<1>2. \A m, n \in 1..5 : path[m] = path[n] => m = n
  BY <1>1
<1>3. \A i \in 1..5 : Position(j, path[i]) = i
  BY <1>1, <1>2, PositionIs DEF Position, path
<1>4. \A i \in 1..5 : at[j] = path[i] => After(j) = IF i = 5 THEN "done" ELSE path[i + 1]
  BY <1>1, <1>3 DEF After, path
<1> QED
  BY <1>1, <1>4 DEF path

\* The steps of a restore, each with the one that follows it.
LEMMA RestorePath ==
  ASSUME NEW j \in Jobs, Kind[j] = "restore"
  PROVE  /\ Path[Kind[j]][1] = "queued"
         /\ at[j] = "queued" => After(j) = "prepare"
         /\ at[j] = "prepare" => After(j) = "rows"
         /\ at[j] = "rows" => After(j) = "vacuum"
         /\ at[j] = "vacuum" => After(j) = "files"
         /\ at[j] = "files" => After(j) = "save"
         /\ at[j] = "save" => After(j) = "old_db"
         /\ at[j] = "old_db" => After(j) = "old_atts"
         /\ at[j] = "old_atts" => After(j) = "new_db"
         /\ at[j] = "new_db" => After(j) = "new_atts"
         /\ at[j] = "new_atts" => After(j) = "check"
         /\ at[j] = "check" => After(j) = "notify"
         /\ at[j] = "notify" => After(j) = "reconciling"
         /\ at[j] = "reconciling" => After(j) = "complete"
         /\ at[j] = "complete" => After(j) = "done"
<1> DEFINE path == Path[Kind[j]]
<1> DEFINE first == <<"queued", "prepare">>
           inside == <<"rows", "vacuum", "files", "save">>
           swap == <<"old_db", "old_atts", "new_db", "new_atts", "check",
                     "notify", "reconciling", "complete">>
<1>a. path = (first \o inside) \o swap
  BY DEF Path, RestoreBackup, CreateBackupInside
<1>b. first \in Seq(Steps) /\ inside \in Seq(Steps) /\ swap \in Seq(Steps)
  BY DEF Steps, Staging
<1>f. Len(first) = 2 /\ Len(inside) = 4 /\ Len(swap) = 8
  OBVIOUS
<1>1. /\ DOMAIN path = 1..14 /\ Len(path) = 14
      /\ path[1] = "queued"
      /\ path[2] = "prepare"
      /\ path[3] = "rows"
      /\ path[4] = "vacuum"
      /\ path[5] = "files"
      /\ path[6] = "save"
      /\ path[7] = "old_db"
      /\ path[8] = "old_atts"
      /\ path[9] = "new_db"
      /\ path[10] = "new_atts"
      /\ path[11] = "check"
      /\ path[12] = "notify"
      /\ path[13] = "reconciling"
      /\ path[14] = "complete"
  BY <1>a, <1>b, <1>f, ThreeParts
<1> HIDE DEF path
<1>2. \A m, n \in 1..14 : path[m] = path[n] => m = n
  BY <1>1
<1>3. \A i \in 1..14 : Position(j, path[i]) = i
  BY <1>1, <1>2, PositionIs DEF Position, path
<1>4. \A i \in 1..14 : at[j] = path[i] =>
        After(j) = IF i = 14 THEN "done" ELSE path[i + 1]
  BY <1>1, <1>3 DEF After, path
<1> QED
  BY <1>1, <1>4 DEF path

-----------------------------------------------------------------------------
(* Who holds a queue. *)

Queues == [Lanes -> Seq(Jobs \X {"call", "nested"})]

\* What can be said of tickets and queues.
LEMMA Tickets ==
  /\ \A j \in Jobs : Call(j) \in Jobs \X {"call", "nested"}
  /\ \A j \in Jobs : Nested(j) \in Jobs \X {"call", "nested"}
  /\ \A j, k \in Jobs : Call(j) = Call(k) => j = k
  /\ \A j \in Jobs : Lane(j) \in Lanes \ {"fresh"}
  /\ "fresh" \in Lanes
  /\ \A q \in Seq(Jobs \X {"call", "nested"}) :
       \A t \in Jobs \X {"call", "nested"} :
         /\ Append(q, t) \in Seq(Jobs \X {"call", "nested"})
         /\ q # << >> => Append(q, t) # << >> /\ Head(Append(q, t)) = Head(q)
  /\ \A q \in Seq(Jobs \X {"call", "nested"}) :
       q # << >> => Tail(q) \in Seq(Jobs \X {"call", "nested"})
<1>1. \A j, k \in Jobs : Call(j) = Call(k) => j = k
  BY DEF Call
<1>2. \A q \in Seq(Jobs \X {"call", "nested"}) :
       \A t \in Jobs \X {"call", "nested"} :
         /\ Append(q, t) \in Seq(Jobs \X {"call", "nested"})
         /\ q # << >> => Append(q, t) # << >> /\ Head(Append(q, t)) = Head(q)
  BY AppendProperties, HeadTailAppend
<1> QED
  BY <1>1, <1>2 DEF Call, Nested, Lane, Lanes

\* A queue that grows, or another queue that moves, leaves every head alone.
LEMMA QueueGrows ==
  ASSUME queue \in Queues, NEW j \in Jobs,
         \/ queue' = queue
         \/ queue' = [queue EXCEPT ![Lane(j)] = Append(@, Call(j))]
         \/ queue' = [queue EXCEPT !["fresh"] = Append(@, Nested(j))]
         \/ /\ Heads("fresh", Nested(j))
            /\ queue' = [queue EXCEPT !["fresh"] = Tail(@)]
  PROVE  queue' \in Queues /\ \A k \in Jobs : Running(k) => Running(k)'
<1>1. \A l \in Lanes : queue[l] \in Seq(Jobs \X {"call", "nested"})
  BY DEF Queues
<1>2. ASSUME NEW l \in Lanes, NEW t \in Jobs \X {"call", "nested"},
             queue' = [queue EXCEPT ![l] = Append(@, t)]
      PROVE  /\ queue' \in Queues
             /\ \A m \in Lanes : queue[m] # << >> =>
                  queue'[m] # << >> /\ Head(queue'[m]) = Head(queue[m])
  <2>1. Append(queue[l], t) \in Seq(Jobs \X {"call", "nested"})
    BY <1>1, Tickets
  <2>2. queue[l] # << >> =>
          Append(queue[l], t) # << >> /\ Head(Append(queue[l], t)) = Head(queue[l])
    BY <1>1, Tickets
  <2>3. queue'[l] = Append(queue[l], t) /\ \A m \in Lanes \ {l} : queue'[m] = queue[m]
    BY <1>2 DEF Queues
  <2>4. queue' \in Queues
    BY <1>2, <2>1 DEF Queues
  <2> QED
    BY <2>2, <2>3, <2>4
<1>3. ASSUME \A m \in Lanes \ {"fresh"} : queue[m] # << >> =>
               queue'[m] # << >> /\ Head(queue'[m]) = Head(queue[m])
      PROVE  \A k \in Jobs : Running(k) => Running(k)'
  BY <1>3, Tickets DEF Running, Heads, Lane, Call
<1>4. CASE queue' = queue
  BY <1>3, <1>4
<1>5. CASE queue' = [queue EXCEPT ![Lane(j)] = Append(@, Call(j))]
  BY <1>2, <1>3, <1>5, Tickets
<1>6. CASE queue' = [queue EXCEPT !["fresh"] = Append(@, Nested(j))]
  BY <1>2, <1>3, <1>6, Tickets
<1>7. CASE /\ Heads("fresh", Nested(j))
           /\ queue' = [queue EXCEPT !["fresh"] = Tail(@)]
  <2>1. Tail(queue["fresh"]) \in Seq(Jobs \X {"call", "nested"})
    BY <1>1, <1>7, Tickets DEF Heads
  <2>2. queue' \in Queues /\ \A m \in Lanes \ {"fresh"} : queue'[m] = queue[m]
    BY <1>7, <2>1 DEF Queues
  <2> QED
    BY <1>3, <2>2
<1> QED
  BY <1>4, <1>5, <1>6, <1>7

\* A call that ends leaves its queue, and only it does.
LEMMA QueueAdvances ==
  ASSUME queue \in Queues, NEW j \in Jobs, Release(j)
  PROVE  queue' \in Queues /\ \A k \in Jobs \ {j} : Running(k) => Running(k)'
<1>1. \A l \in Lanes : queue[l] \in Seq(Jobs \X {"call", "nested"})
  BY DEF Queues
<1>2. CASE Running(j)
  <2>1. queue' = [queue EXCEPT ![Lane(j)] = Tail(@)]
    BY <1>2 DEF Release
  <2>2. queue' \in Queues
    BY <1>1, <1>2, <2>1, Tickets DEF Queues, Running, Heads
  <2>3. \A k \in Jobs \ {j} : Running(k) => queue'[Lane(k)] = queue[Lane(k)]
    BY <1>2, <2>1, Tickets DEF Queues, Running, Heads
  <2> QED
    BY <2>2, <2>3 DEF Running, Heads, Lane, Call
<1>3. CASE ~Running(j)
  BY <1>3 DEF Release, Running, Heads, Lane, Call
<1> QED
  BY <1>2, <1>3

\* One call of a queue runs at a time.
LEMMA OneRuns ==
  ASSUME PathInv, NEW j \in Jobs, NEW k \in Jobs,
         Holding(j), Holding(k), Lane(j) = Lane(k)
  PROVE  j = k
BY Tickets DEF PathInv, Running, Heads

\* When one call moves, the others keep their places.
LEMMA OneMoves ==
  ASSUME PathInv, NEW j \in Jobs, NEW s \in Steps \cup Ended \cup {"cleanup"},
         at' = [at EXCEPT ![j] = s], queue' \in Queues,
         \A k \in Jobs \ {j} : Running(k) => Running(k)',
         OnPath(j)', Holding(j)' => Running(j)'
  PROVE  PathInv'
<1>1. /\ at' \in [Jobs -> Steps \cup Outside \cup {"cleanup"}]
      /\ at'[j] = s /\ \A k \in Jobs \ {j} : at'[k] = at[k]
  BY DEF PathInv, Outside
<1>2. \A k \in Jobs \ {j} : OnPath(k)' /\ (Holding(k)' => Running(k)')
  BY <1>1 DEF PathInv, OnPath, Holding
<1> QED
  BY <1>1, <1>2 DEF PathInv, Queues

-----------------------------------------------------------------------------
(* Every step keeps PathInv. *)

\* There are five kinds of calls.
LEMMA KindsAre ==
  \A j \in Jobs : Kind[j] \in {"agenda", "evidence", "inventory", "backup", "restore"}
BY Inputs DEF Kinds, Path

\* A step that returns takes the call to the next place of its path.
LEMMA GoesOn ==
  ASSUME PathInv, NEW j \in Jobs, at[j] \in Steps,
         at[j] = "queued" => Running(j), GoTo(j, After(j))
  PROVE  PathInv'
<1> DEFINE s == After(j)
<1>1. at' = [at EXCEPT ![j] = s] /\ at'[j] = s
  BY DEF GoTo, PathInv
<1>2. /\ OnPath(j) /\ (Holding(j) => Running(j)) /\ queue \in Queues
      /\ Kind[j] \in {"agenda", "evidence", "inventory", "backup", "restore"}
  BY KindsAre DEF PathInv, Queues
<1>3. /\ s \in Steps \cup Ended /\ OnPath(j)'
      /\ s = "queued" => ~Holding(j)'
      /\ Holding(j)' => Holding(j) \/ at[j] = "queued"
  <2>1. CASE Kind[j] = "agenda"
    BY <1>1, <1>2, <2>1, AgendaPath
       DEF OnPath, Holding, Steps, Ended, Outside, AddingSteps, Attaching,
       Staging
  <2>2. CASE Kind[j] = "evidence"
    BY <1>1, <1>2, <2>2, EvidencePath
       DEF OnPath, Holding, Steps, Ended, Outside, AddingSteps, Attaching,
       Staging
  <2>3. CASE Kind[j] = "inventory"
    BY <1>1, <1>2, <2>3, InventoryPath
       DEF OnPath, Holding, Steps, Ended, Outside, AddingSteps, Attaching,
       Staging
  <2>4. CASE Kind[j] = "backup"
    BY <1>1, <1>2, <2>4, BackupPath
       DEF OnPath, Holding, Steps, Ended, Outside, PackingSteps, Attaching,
       Staging
  <2>5. CASE Kind[j] = "restore"
    BY <1>1, <1>2, <2>5, RestorePath
       DEF OnPath, Holding, Steps, Ended, Outside, PackingSteps, Swapping, Attaching,
       Staging
  <2> QED
    BY <1>2, <2>1, <2>2, <2>3, <2>4, <2>5
<1>4. s \in Ended => ~Holding(j)'
  BY <1>1 DEF Holding, Ended, Outside
<1>5. at[j] # "new"
  BY DEF Steps, Staging
<1>6. s # "queued" /\ s \notin Ended => queue' = queue
  BY DEF GoTo
<1>7. CASE s \in Ended
  <2>1. Release(j)
    BY <1>7 DEF GoTo, Ended
  <2>2. queue' \in Queues /\ \A k \in Jobs \ {j} : Running(k) => Running(k)'
    BY <1>2, <2>1, QueueAdvances
  <2> QED
    BY <1>1, <1>3, <1>4, <1>5, <1>7, <2>2, OneMoves
<1>8. CASE s \notin Ended
  <2>1. queue' \in Queues /\ \A k \in Jobs : Running(k) => Running(k)'
    BY <1>2, <1>6, <1>8, QueueGrows DEF GoTo, Enqueue
  <2> QED
    BY <1>1, <1>2, <1>3, <1>5, <2>1, OneMoves
<1> QED
  BY <1>7, <1>8

\* A step that throws takes the call out of its queue, or to its clean-up.
LEMMA FailsOut ==
  ASSUME PathInv, NEW j \in Jobs, at[j] \in Steps \ {"queued"}, Fail(j)
  PROVE  PathInv'
<1>1. PICK s \in {"cleanup", "failed"} :
        /\ at' = [at EXCEPT ![j] = s]
        /\ s = "cleanup" => OwnsFile(j)
        /\ IF s = "cleanup" /\ Kind[j] # "agenda"
             THEN queue' = queue ELSE Release(j)
  BY DEF Fail
<1>2. at'[j] = s /\ at[j] # "new" /\ s \in Ended \cup {"cleanup"}
  BY <1>1 DEF PathInv, Steps, Ended, Staging
<1>3. OnPath(j)'
  <2>1. s = "cleanup" => Kind[j] \in {"agenda", "evidence", "inventory"}
    BY <1>1 DEF OwnsFile, Attaching
  <2> QED
    BY <1>2, <2>1 DEF OnPath, Outside, Ended, Attaching
<1>4. OnPath(j) /\ (Holding(j) => Running(j)) /\ queue \in Queues
  BY DEF PathInv, Queues
<1>5. CASE s = "cleanup" /\ Kind[j] # "agenda"
  <2>1. queue' \in Queues /\ \A k \in Jobs : Running(k) => Running(k)'
    BY <1>1, <1>4, <1>5, QueueGrows
  <2>2. Holding(j)
    BY <1>5 DEF Holding, Outside, Ended, Steps, Staging
  <2> QED
    BY <1>1, <1>2, <1>3, <1>4, <2>1, <2>2, OneMoves
<1>6. CASE ~(s = "cleanup" /\ Kind[j] # "agenda")
  <2>1. queue' \in Queues /\ \A k \in Jobs \ {j} : Running(k) => Running(k)'
    BY <1>1, <1>4, <1>6, QueueAdvances
  <2>2. ~Holding(j)'
    BY <1>1, <1>2, <1>6 DEF Holding, Outside, Ended
  <2> QED
    BY <1>1, <1>2, <1>3, <2>1, <2>2, OneMoves
<1> QED
  BY <1>5, <1>6


\* A clean-up that ends, or a call whose id is taken.
LEMMA EndsEarly ==
  ASSUME PathInv, NEW j \in Jobs, at[j] \in {"look", "cleanup"}, GoTo(j, "failed")
  PROVE  PathInv'
<1>1. /\ at' = [at EXCEPT ![j] = "failed"] /\ Release(j)
      /\ at'[j] = "failed" /\ queue \in Queues
  BY DEF GoTo, PathInv, Queues, Ended
<1>2. OnPath(j)' /\ ~Holding(j)'
  BY <1>1 DEF OnPath, Holding, Outside, Ended
<1>3. queue' \in Queues /\ \A k \in Jobs \ {j} : Running(k) => Running(k)'
  BY <1>1, QueueAdvances
<1> QED
  BY <1>1, <1>2, <1>3, OneMoves DEF Ended

\* A call that is asked for begins its path.
LEMMA Asks ==
  ASSUME PathInv, NEW j \in Jobs, Ask(j)
  PROVE  PathInv' /\ at'[j] = IF Kind[j] = "agenda" THEN "look" ELSE "queued"
<1> DEFINE s == Path[Kind[j]][1]
<1>1. /\ at' = [at EXCEPT ![j] = s] /\ at'[j] = s /\ queue \in Queues
      /\ \A k \in Jobs \ {j} : at'[k] = at[k]
  BY DEF Ask, GoTo, PathInv, Queues
<1>2. s = IF Kind[j] = "agenda" THEN "look" ELSE "queued"
  BY KindsAre, AgendaPath, EvidencePath, InventoryPath, BackupPath, RestorePath
<1>3. s \in Steps /\ s \notin Ended /\ OnPath(j)' /\ ~Holding(j)'
  BY <1>1, <1>2, KindsAre
     DEF OnPath, Holding, Steps, Ended, Outside, AddingSteps, PackingSteps, Attaching,
       Staging
<1>4. queue' \in Queues /\ \A k \in Jobs : Running(k) => Running(k)'
  BY <1>1, <1>2, <1>3, QueueGrows DEF Ask, GoTo, Enqueue
<1> QED
  BY <1>1, <1>2, <1>3, <1>4, OneMoves

\* Every step keeps PathInv, and only the ones that are inside move data.
LEMMA PathStep ==
  ASSUME PathInv, [Next]_vars
  PROVE  PathInv'
<1>1. ASSUME NEW j \in Jobs, Begin(j) \/ Backup(j) \/ Prepare(j) \/ MoveOldDb(j)
               \/ MoveOldAtts(j) \/ MoveNewDb(j) \/ MoveNewAtts(j) \/ Check(j)
               \/ Complete(j) \/ Stage(j) \/ Verify(j) \/ Finalize(j) \/ OpenDb(j)
               \/ Commit(j) \/ Close(j)
      PROVE  PathInv'
  <2>1. /\ at[j] \in Steps
        /\ \/ Proceed(j) /\ (at[j] = "queued" => Running(j))
           \/ Fail(j) /\ at[j] # "queued"
    BY <1>1 DEF Begin, Backup, ReadRows, Vacuum, ReadFiles, Save, Prepare,
         MoveOldDb, MoveOldAtts, MoveNewDb, MoveNewAtts, Check, Complete, Stage,
         Verify, Finalize, OpenDb, Commit, Close, Steps, Refuse, Staging
  <2> QED
    BY <2>1, GoesOn, FailsOut DEF Proceed
<1>6. ASSUME NEW j \in Jobs, Look(j) PROVE PathInv'
  <2>1. at[j] = "look" /\ (GoTo(j, After(j)) \/ GoTo(j, "failed"))
    BY <1>6 DEF Look, Proceed
  <2> QED
    BY <2>1, GoesOn, EndsEarly DEF Steps, Staging
<1>2. ASSUME NEW j \in Jobs, Notify(j) \/ Reconciled(j)
      PROVE  PathInv'
  <2> DEFINE s == After(j)
  <2>1. /\ at[j] \in {"notify", "reconciling"} /\ at' = [at EXCEPT ![j] = s]
        /\ at'[j] = s /\ OnPath(j) /\ (Holding(j) => Running(j)) /\ queue \in Queues
    BY <1>2 DEF Notify, Reconciled, PathInv, Queues
  <2>2. Kind[j] = "restore"
    BY <2>1, KindsAre DEF OnPath, Attaching, AddingSteps, PackingSteps, Outside, Ended,
       Staging
  <2>3. s \in {"reconciling", "complete"}
    BY <2>1, <2>2, RestorePath
  <2>4. OnPath(j)' /\ Holding(j) /\ at[j] # "new" /\ s \in Steps
    BY <2>1, <2>2, <2>3
       DEF OnPath, Holding, Swapping, Outside, Ended, Attaching, Steps, Staging
  <2>5. queue' \in Queues /\ \A k \in Jobs : Running(k) => Running(k)'
    BY <1>2, <2>1, QueueGrows DEF Notify, Reconciled, NotifyLane
  <2> QED
    BY <2>1, <2>4, <2>5, OneMoves
<1>3. ASSUME NEW j \in Jobs, Throw(j) PROVE PathInv'
  <2>1. at[j] \in Steps \ {"queued"} /\ Fail(j)
    BY <1>3, Inputs DEF Throw
  <2> QED
    BY <2>1, FailsOut
<1>4. ASSUME Crash PROVE PathInv'
  <2>1. \A j \in Jobs : at'[j] \in Outside /\ (at[j] = "new" => at'[j] = "new")
    BY <1>4 DEF Crash, Outside, Ended, PathInv
  <2>2. at' \in [Jobs -> Steps \cup Outside \cup {"cleanup"}]
    BY <1>4, <2>1 DEF Crash
  <2>3. queue' \in Queues
    BY <1>4 DEF Crash, Queues
  <2>4. \A j \in Jobs : OnPath(j)' /\ ~Holding(j)'
    BY <2>1 DEF OnPath, Holding, Outside, Ended
  <2> QED
    BY <2>2, <2>3, <2>4 DEF PathInv, Queues
<1>5. CASE UNCHANGED vars
  BY <1>5 DEF vars, PathInv, OnPath, Holding, Running, Heads, Lane, Call
<1> QED
  BY <1>1, <1>2, <1>3, <1>4, <1>5, <1>6, Asks, EndsEarly
     DEF Next, Step, AddPhoto, Restore, Cleanup

-----------------------------------------------------------------------------
(* Who moves beside a restore, and what holds while none is half way. *)

\* While a restore holds the queue, every other call waits, has ended or has
\* been overtaken.
LEMMA RestoreAlone ==
  ASSUME NEW X, NEW B, PathInv, MeetInv(X, B),
         NEW r \in Jobs, Kind[r] = "restore", Holding(r)
  PROVE  \A k \in Jobs \ {r} :
           /\ ~Midway(k)
           /\ Kind[k] \notin {"agenda", "inventory"} => at[k] \in Outside \cup {"queued"}
           /\ at[k] \notin Outside \cup {"queued"} => Photo[k] \in X
           /\ Photo[k] \notin X => ~Pending(k) /\ ~Opened(k)
<1> SUFFICES ASSUME NEW k \in Jobs \ {r}
             PROVE  /\ ~Midway(k)
                    /\ Kind[k] \notin {"agenda", "inventory"} =>
                         at[k] \in Outside \cup {"queued"}
                    /\ at[k] \notin Outside \cup {"queued"} => Photo[k] \in X
                    /\ Photo[k] \notin X => ~Pending(k) /\ ~Opened(k)
  OBVIOUS
<1>1. Holds(r) /\ OnPath(k)
      /\ Kind[k] \in {"agenda", "evidence", "inventory", "backup", "restore"}
  BY KindsAre DEF Holds, Holding, Packing, UnderWay, Outside, PathInv
<1>2. CASE Kind[k] \in {"agenda", "inventory"}
  <2>1. at[k] \notin Outside => Photo[k] \in X
    BY <1>1, <1>2 DEF MeetInv, Meets, UnderWay, Outside
  <2>2. ~Midway(k)
    BY <1>1, <1>2 DEF OnPath, Attaching, AddingSteps, Staging, Outside, Ended,
                      Midway, Swapping
  <2>3. at[k] \in Outside => ~Pending(k) /\ ~Opened(k)
    BY <1>2 DEF Pending, Opened, Staging, Outside, Ended
  <2> QED
    BY <1>2, <2>1, <2>2, <2>3
<1>3. CASE Kind[k] \notin {"agenda", "inventory"}
  <2>1. Lane(k) = Lane(r)
    BY <1>3 DEF Lane
  <2>2. ~Holding(k)
    BY <2>1, OneRuns
  <2>3. at[k] \in Outside \cup {"queued"}
    BY <1>3, <2>2 DEF Holding
  <2> QED
    BY <1>1, <1>3, <2>3 DEF Pending, Opened, Midway, Swapping, Outside, Ended
<1> QED
  BY <1>2, <1>3

\* Which kind of call is at which step.
LEMMA KindAt ==
  ASSUME PathInv, NEW j \in Jobs
  PROVE  /\ at[j] \in Staging \cup {"look", "open", "commit", "close", "cleanup"} =>
              Kind[j] \in {"agenda", "evidence", "inventory"}
         /\ at[j] \in {"rows", "vacuum", "files", "save"} =>
              Kind[j] \in {"backup", "restore"} /\ Holding(j)
         /\ at[j] \in {"prepare"} \cup Swapping => Kind[j] = "restore" /\ Holding(j)
         /\ at[j] \in Steps \cup Outside \cup {"cleanup"}
<1>1. OnPath(j) /\ Kind[j] \in {"agenda", "evidence", "inventory", "backup", "restore"}
  BY KindsAre DEF PathInv
<1> QED
  BY <1>1 DEF OnPath, Attaching, AddingSteps, Staging, PackingSteps, Swapping,
              Outside, Ended, Holding, PathInv

\* A call that no restore has overtaken moves while no restore is half way.
LEMMA CalmAt ==
  ASSUME NEW X, NEW B, PathInv, MeetInv(X, B), NEW j \in Jobs,
         at[j] \notin Outside \cup {"queued"}, ~Midway(j),
         Kind[j] \in {"agenda", "inventory"} => Photo[j] \notin X
  PROVE  Calm
<1> SUFFICES ASSUME NEW r \in Jobs, Midway(r) PROVE FALSE
  BY DEF Calm
<1>1. Kind[r] = "restore" /\ Holding(r) /\ r # j
  BY KindAt DEF Midway
<1> QED
  BY <1>1, RestoreAlone

\* Whose file is not in X waits for no restore.
LEMMA OwnerCalm ==
  ASSUME NEW X, NEW B, PathInv, MeetInv(X, B), NEW j \in Jobs,
         Pending(j) \/ Opened(j), Photo[j] \notin X
  PROVE  Calm
<1> SUFFICES ASSUME NEW r \in Jobs, Midway(r) PROVE FALSE
  BY DEF Calm
<1>1. Kind[r] = "restore" /\ Holding(r)
  BY KindAt DEF Midway
<1>2. r # j
  BY <1>1 DEF Pending, Opened, Midway, Swapping
<1> QED
  BY <1>1, <1>2, RestoreAlone

\* Nothing at a path is not an empty database.
LEMMA NoFileIsNoSet == NoFile \notin SUBSET Photos
BY Inputs

\* Outside the swap the data root is in its place and, but for X, whole.
LEMMA CalmRoot ==
  ASSUME NEW X, NEW B, DataInv(X, B), Calm
  PROVE  /\ old = Nothing
         /\ active.rows \in SUBSET Photos /\ active.files \in SUBSET Photos
         /\ active.rows # NoFile /\ active.files # NoFile
         /\ active.rows \ X \subseteq active.files
         /\ KeptRows = active.rows /\ KeptFiles = active.files
         /\ active = [rows |-> active.rows, files |-> active.files]
         /\ \A j \in Jobs : conn[j] # "old"
<1>1. old = Nothing /\ \A j \in Jobs : conn[j] # "old"
  BY DEF DataInv, SwapInv, ConnInv
<1>2. KeptRows = active.rows /\ KeptFiles = active.files
  BY <1>1 DEF KeptRows, KeptFiles, Nothing
<1>3. active \in [rows : Sets, files : Sets]
  BY DEF DataInv, DataTyped
<1>4. active = [rows |-> active.rows, files |-> active.files]
  BY <1>3
<1>5. active.rows # NoFile /\ active.files # NoFile /\ active.rows \ X \subseteq active.files
  BY <1>2 DEF DataInv, KeptInv
<1>6. active.rows \in SUBSET Photos /\ active.files \in SUBSET Photos
  BY <1>3, <1>5 DEF Sets
<1> QED
  BY <1>1, <1>2, <1>4, <1>5, <1>6

\* Up to the photos of X, what is at a path stays.
Near(X, a, b) ==
  IF a = NoFile THEN b = NoFile \/ b \subseteq X ELSE b # NoFile /\ b \ X = a \ X

\* What is aside stays there.
AsideKept(X) ==
  /\ old'.files = old.files
  /\ IF old.rows = NoFile THEN old'.rows = NoFile
     ELSE old'.rows # NoFile /\ old'.rows \ X = old.rows \ X

\* What a rollback would leave changes for X only.
LEMMA KeptNear ==
  ASSUME NEW X, KeptInv(X), AsideKept(X),
         Near(X, active.rows, active'.rows), Near(X, active.files, active'.files)
  PROVE  /\ KeptRows' # NoFile /\ KeptRows' \ X = KeptRows \ X
         /\ KeptFiles' # NoFile /\ KeptFiles' \ X = KeptFiles \ X
<1>1. KeptRows' # NoFile /\ KeptRows' \ X = KeptRows \ X
  <2>1. CASE old.rows = NoFile
    BY <2>1 DEF KeptInv, AsideKept, Near, KeptRows
  <2>2. CASE old.rows # NoFile
    BY <2>2 DEF AsideKept, KeptRows
  <2> QED
    BY <2>1, <2>2
<1>2. KeptFiles' # NoFile /\ KeptFiles' \ X = KeptFiles \ X
  <2>1. CASE old.files = NoFile
    BY <2>1 DEF KeptInv, AsideKept, Near, KeptFiles
  <2>2. CASE old.files # NoFile
    BY <2>2 DEF AsideKept, KeptFiles
  <2> QED
    BY <2>1, <2>2
<1> QED
  BY <1>1, <1>2

\* A step of j takes over the .part files it leaves.
PartsKept(j) ==
  \A p \in temp' :
    \/ p \in temp /\ ~(Staged(j) /\ p = Photo[j])
    \/ Staged(j)' /\ p = Photo[j]

\* A step that, outside X, moves no data but .part files.
LEMMA Moves ==
  ASSUME NEW X, NEW B, IInv(X, B), NEW j \in Jobs, NEW s, at' = [at EXCEPT ![j] = s],
         UNCHANGED <<package, incoming, saved, crashes>>,
         active' \in [rows : Sets, files : Sets], old' \in [rows : Sets, files : Sets],
         Near(X, active.rows, active'.rows), Near(X, active.files, active'.files),
         AsideKept(X), temp' \subseteq Photos, PartsKept(j),
         \/ conn' = conn
         \/ conn' = [conn EXCEPT ![j] = "none"]
         \/ conn' = [conn EXCEPT ![j] = "active"] /\ active'.rows # NoFile,
         Photo[j] \notin X => /\ Pending(j)' <=> Pending(j)
                              /\ Opened(j)' => conn'[j] = "active",
         Midway(j)' <=> Midway(j),
         \A k \in Jobs : at[k] = "vacuum" =>
           active.rows \subseteq active'.rows /\ active'.rows \subseteq active.rows \cup B[k],
         SwapAt(X, j)', PackAt(B, j)', AckAt(X, j)'
  PROVE  DataInv(X, B)'
<1>0. /\ DataTyped /\ KeptInv(X) /\ SwapInv(X) /\ OwnInv(X) /\ ConnInv(X)
      /\ PackInv(B) /\ LeftInv(X) /\ AckInv(X) /\ PathInv /\ MeetInv(X, B)
  BY DEF IInv, DataInv
<1>1. at'[j] = s /\ \A k \in Jobs \ {j} : at'[k] = at[k]
  BY <1>0 DEF PathInv
<1>2. /\ \A k \in Jobs \ {j} : /\ Pending(k)' <=> Pending(k)
                               /\ Opened(k)' <=> Opened(k)
                               /\ Staged(k)' <=> Staged(k)
                               /\ Midway(k)' <=> Midway(k)
      /\ Calm' <=> Calm
  <2>1. \A k \in Jobs \ {j} : /\ Pending(k)' <=> Pending(k)
                              /\ Opened(k)' <=> Opened(k)
                              /\ Staged(k)' <=> Staged(k)
                              /\ Midway(k)' <=> Midway(k)
    BY <1>1 DEF Pending, Midway, Opened, Staged
  <2> QED
    BY <2>1 DEF Calm
<1>3. /\ KeptRows' # NoFile /\ KeptRows' \ X = KeptRows \ X
      /\ KeptFiles' # NoFile /\ KeptFiles' \ X = KeptFiles \ X
  BY <1>0, KeptNear
<1>4. DataTyped'
  BY <1>0 DEF DataTyped
<1>5. KeptInv(X)'
  BY <1>0, <1>3 DEF KeptInv
<1>6. SwapInv(X)'
  <2>1. ASSUME NEW k \in Jobs \ {j} PROVE SwapAt(X, k)'
    <3>1. SwapAt(X, k) /\ at'[k] = at[k] /\ (Midway(k)' <=> Midway(k))
      BY <1>0, <1>1, <1>2 DEF SwapInv
    <3> QED
      BY <3>1 DEF SwapAt, Near, AsideKept
  <2>2. Calm => old' = Nothing
    BY <1>0 DEF SwapInv, AsideKept, Nothing
  <2> QED
    BY <1>2, <2>1, <2>2 DEF SwapInv
<1>7. OwnInv(X)'
  <2>1. ASSUME NEW k \in Jobs, Pending(k)', Photo[k] \notin X
        PROVE  Pending(k) /\ Photo[k] \in active'.files /\ Photo[k] \notin active'.rows
    <3>1. Pending(k)
      BY <1>2, <2>1
    <3>2. Photo[k] \in active.files /\ Photo[k] \notin active.rows
      BY <1>0, <2>1, <3>1 DEF OwnInv
    <3>3. active.rows # NoFile /\ active.files # NoFile
      BY <1>0, <2>1, <3>1, OwnerCalm, CalmRoot DEF IInv
    <3> QED
      BY <2>1, <3>1, <3>2, <3>3 DEF Near
  <2>2. ASSUME NEW k \in Jobs, NEW l \in Jobs, Pending(k)', Pending(l)', k # l,
               Photo[k] \notin X, Photo[k] = Photo[l]
        PROVE  FALSE
    BY <1>0, <2>1, <2>2 DEF OwnInv
  <2> QED
    BY <2>1, <2>2 DEF OwnInv
<1>8. ConnInv(X)'
  <2>1. active.rows # NoFile => active'.rows # NoFile
    BY DEF Near
  <2>2. \A k \in Jobs \ {j} : conn'[k] = conn[k]
    BY <1>0 DEF DataTyped
  <2>3. conn'[j] = conn[j] \/ conn'[j] = "none" \/ (conn'[j] = "active" /\ active'.rows # NoFile)
    BY <1>0 DEF DataTyped
  <2> QED
    BY <1>0, <1>2, <2>1, <2>2, <2>3 DEF ConnInv
<1>9. PackInv(B)'
  <2>1. ASSUME NEW k \in Jobs \ {j} PROVE PackAt(B, k)'
    <3>1. PackAt(B, k) /\ at'[k] = at[k]
      BY <1>0, <1>1 DEF PackInv
    <3>2. at[k] = "vacuum" => Lists(package[k].files, active'.rows, B[k])
      BY <3>1 DEF PackAt, Lists
    <3> QED
      BY <3>1, <3>2 DEF PackAt
  <2> QED
    BY <1>0, <2>1 DEF PackInv, Restorable
<1>10. LeftInv(X)'
  <2> SUFFICES ASSUME crashes = 0
               PROVE  /\ \A p \in (KeptFiles' \ KeptRows') \ X :
                           \E k \in Jobs : Pending(k)' /\ Photo[k] = p
                      /\ \A p \in temp' : \E k \in Jobs : Staged(k)' /\ Photo[k] = p
    BY DEF LeftInv
  <2>1. ASSUME NEW p \in (KeptFiles' \ KeptRows') \ X
        PROVE  \E k \in Jobs : Pending(k)' /\ Photo[k] = p
    <3>1. p \in (KeptFiles \ KeptRows) \ X
      BY <1>3, <2>1
    <3>2. PICK k \in Jobs : Pending(k) /\ Photo[k] = p
      BY <1>0, <3>1 DEF LeftInv
    <3> QED
      BY <1>2, <3>1, <3>2
  <2>2. ASSUME NEW p \in temp'
        PROVE  \E k \in Jobs : Staged(k)' /\ Photo[k] = p
    <3>1. CASE Staged(j)' /\ p = Photo[j]
      BY <3>1
    <3>2. CASE p \in temp /\ ~(Staged(j) /\ p = Photo[j])
      <4>1. PICK k \in Jobs : Staged(k) /\ Photo[k] = p
        BY <1>0, <3>2 DEF LeftInv
      <4> QED
        BY <1>2, <3>2, <4>1
    <3> QED
      BY <2>2, <3>1, <3>2 DEF PartsKept
  <2> QED
    BY <2>1, <2>2
<1>11. AckInv(X)'
  <2>1. ASSUME NEW k \in Jobs \ {j} PROVE AckAt(X, k)'
    <3>1. AckAt(X, k) /\ at'[k] = at[k]
      BY <1>0, <1>1 DEF AckInv
    <3> QED
      BY <1>3, <3>1 DEF AckAt
  <2> QED
    BY <2>1 DEF AckInv
<1> QED
  BY <1>4, <1>5, <1>6, <1>7, <1>8, <1>9, <1>10, <1>11 DEF DataInv

-----------------------------------------------------------------------------
(* Adding a photo. *)

\* What the attaching calls need: the root in its place, and their next step.
LEMMA Adds ==
  ASSUME NEW X, NEW B, IInv(X, B), NEW j \in Jobs,
         at[j] \in Staging \cup {"look", "open", "commit", "close", "cleanup"}
  PROVE  /\ Photo[j] \notin X => Calm
         /\ Kind[j] \in {"agenda", "evidence", "inventory"}
         /\ at[j] \notin Outside \cup {"queued"} \cup Swapping
         /\ at[j] = "look" => After(j) = "stage"
         /\ at[j] = "stage" => After(j) = "verify"
         /\ at[j] = "verify" => After(j) = "finalize"
         /\ at[j] = "finalize" => After(j) \in {"queued", "open", "commit"}
         /\ at[j] = "open" =>
              After(j) = IF Kind[j] = "inventory" THEN "look" ELSE "commit"
         /\ at[j] = "commit" => After(j) = "close"
         /\ at[j] = "close" => After(j) = "done"
         /\ at[j] # "cleanup" =>
              (OwnsFile(j) <=> Pending(j) \/ at[j] = "close")
         /\ at[j] = "commit" => Pending(j)
         /\ j \notin saved /\ ~Midway(j)
<1>1. at[j] \notin Outside \cup {"queued"} \cup Swapping /\ ~Midway(j)
  BY DEF Outside, Ended, Swapping, Staging, Midway
<1>2. (Photo[j] \notin X => Calm) /\ Kind[j] \in {"agenda", "evidence", "inventory"}
  BY <1>1, CalmAt, KindAt DEF IInv
<1>3. j \notin saved
  BY <1>1 DEF IInv, DataInv, PackInv, PackAt, Outside
<1>4. CASE Kind[j] = "agenda"
  BY <1>1, <1>2, <1>3, <1>4, AgendaPath DEF AddingSteps, Pending, Staging
<1>5. CASE Kind[j] = "evidence"
  BY <1>1, <1>2, <1>3, <1>5, EvidencePath DEF AddingSteps, Pending, Staging
<1>6. CASE Kind[j] = "inventory"
  BY <1>1, <1>2, <1>3, <1>6, InventoryPath DEF AddingSteps, Pending, Staging
<1> QED
  BY <1>2, <1>4, <1>5, <1>6

\* An attaching call stays one, wherever it goes.
LEMMA AddsOn ==
  ASSUME NEW X, NEW B, IInv(X, B), NEW j \in Jobs,
         at[j] \in Staging \cup {"look", "open", "commit", "close", "cleanup"},
         NEW s \in AddingSteps \cup Ended \cup {"cleanup"},
         at' = [at EXCEPT ![j] = s], saved' = saved
  PROVE  /\ at'[j] = s
         /\ SwapAt(X, j)' /\ PackAt(B, j)' /\ (Midway(j)' <=> Midway(j))
         /\ s \notin {"close", "done"} \/ Photo[j] \in X => AckAt(X, j)'
<1>1. at'[j] = s
  BY DEF IInv, PathInv
<1>2. /\ Kind[j] \in {"agenda", "evidence", "inventory"} /\ j \notin saved
      /\ ~Midway(j)
  BY Adds
<1>3. s \notin Swapping /\ s \notin {"vacuum", "files", "save"}
  BY DEF AddingSteps, Staging, Ended, Swapping
<1> QED
  BY <1>1, <1>2, <1>3 DEF SwapAt, PackAt, Midway, AckAt, Swapping

\* What is there is near itself.
LEMMA NearSame ==
  ASSUME NEW X, UNCHANGED <<active, old>>
  PROVE  /\ Near(X, active.rows, active'.rows) /\ Near(X, active.files, active'.files)
         /\ AsideKept(X)
         /\ \A S : active.rows \subseteq active'.rows /\ active'.rows \subseteq active.rows \cup S
BY DEF Near, AsideKept

\* A commit beside a backup is that of an asset, and a restore overtakes it.
LEMMA CommitBeside ==
  ASSUME NEW X, NEW B, IInv(X, B), NEW j \in Jobs, at[j] = "commit",
         NEW k \in Jobs, Kind[k] \in {"backup", "restore"}, Holding(k)
  PROVE  Photo[j] \in B[k] /\ (Kind[k] = "restore" => Photo[j] \in X)
<1>1. Kind[j] \in {"agenda", "evidence", "inventory"} /\ Holding(j)
  BY KindAt DEF IInv, Holding, Outside, Ended
<1>2. Kind[j] = "inventory"
  <2> SUFFICES ASSUME Kind[j] # "inventory" PROVE FALSE
    BY <1>1
  <2>1. Lane(j) = Lane(k)
    BY DEF Lane
  <2> QED
    BY <1>1, <2>1, OneRuns DEF IInv
<1>3. Meets(k, j)
  BY <1>2 DEF Meets, Holds, Holding, Packing, UnderWay, Outside, Ended
<1> QED
  BY <1>2, <1>3 DEF IInv, MeetInv

\* A step of j leaves each file without a row to one call, ...
OwnersKept(X, j) ==
  /\ Pending(j)' => Photo[j] \in active'.files /\ Photo[j] \notin active'.rows
  /\ \A k \in Jobs \ {j} : Pending(k) /\ Photo[k] \notin X =>
       /\ Photo[k] \in active'.files /\ Photo[k] \notin active'.rows
       /\ Pending(j)' => Photo[j] # Photo[k]

\* ... and leaves nothing over that has no call.
TracesKept(X, j) ==
  \A p \in (active'.files \ active'.rows) \ X :
    \/ p \in active.files \ active.rows /\ ~(Pending(j) /\ p = Photo[j])
    \/ Pending(j)' /\ p = Photo[j]

\* The files or the rows change for one call that no restore overtook.
LEMMA Attaches ==
  ASSUME NEW X, NEW B, IInv(X, B), NEW j \in Jobs, Photo[j] \notin X,
         at[j] \in {"finalize", "commit", "cleanup"},
         NEW s \in AddingSteps \cup Ended, at' = [at EXCEPT ![j] = s],
         active' = [rows |-> active'.rows, files |-> active'.files],
         active'.rows \in SUBSET Photos, active'.files \in SUBSET Photos,
         active'.rows \ X \subseteq active'.files, temp' \subseteq Photos, PartsKept(j),
         UNCHANGED <<old, conn, package, incoming, saved, crashes>>,
         Opened(j)' => Opened(j),
         active.rows \subseteq active'.rows,
         s # "done", s = "close" => Photo[j] \in active'.rows,
         \A k \in Jobs : at[k] = "vacuum" => active'.rows \subseteq active.rows \cup B[k],
         \A k \in Jobs : Kind[k] = "restore" /\ Holding(k) => active'.rows = active.rows,
         OwnersKept(X, j), TracesKept(X, j)
  PROVE  DataInv(X, B)'
<1>0. /\ DataTyped /\ KeptInv(X) /\ SwapInv(X) /\ OwnInv(X) /\ ConnInv(X)
      /\ PackInv(B) /\ LeftInv(X) /\ AckInv(X) /\ PathInv /\ MeetInv(X, B)
  BY DEF IInv, DataInv
<1> DEFINE rows == active'.rows
           files == active'.files
<1>1. at'[j] = s /\ \A k \in Jobs \ {j} : at'[k] = at[k]
  BY <1>0 DEF PathInv
<1>2. Calm /\ ~Midway(j)
  BY Adds DEF Staging
<1>3. /\ old = Nothing /\ KeptRows = active.rows /\ KeptFiles = active.files
      /\ active.rows \in SUBSET Photos /\ active.rows # NoFile
      /\ \A k \in Jobs : conn[k] # "old"
  BY <1>2, CalmRoot DEF IInv
<1>4. \A k \in Jobs \ {j} : /\ Pending(k)' <=> Pending(k)
                            /\ Opened(k)' <=> Opened(k)
                            /\ Staged(k)' <=> Staged(k)
                            /\ Midway(k)' <=> Midway(k)
  BY <1>1 DEF Pending, Opened, Staged, Midway
<1>5. /\ SwapAt(X, j)' /\ PackAt(B, j)' /\ ~Midway(j)'
      /\ s # "close" => AckAt(X, j)'
  BY <1>2, AddsOn DEF Staging
<1>6. Calm' /\ rows # NoFile /\ files # NoFile /\ old' = Nothing
  BY <1>2, <1>3, <1>4, <1>5, NoFileIsNoSet DEF Calm
<1>7. KeptRows' = rows /\ KeptFiles' = files
  BY <1>6 DEF KeptRows, KeptFiles, Nothing
<1>8. DataTyped'
  BY <1>0, <1>6 DEF DataTyped, Sets
<1>9. KeptInv(X)'
  BY <1>6, <1>7 DEF KeptInv
<1>10. SwapInv(X)'
  <2>1. ASSUME NEW k \in Jobs \ {j} PROVE SwapAt(X, k)'
    <3>1. ~Midway(k)'
      BY <1>6 DEF Calm
    <3> QED
      BY <3>1 DEF SwapAt, Midway, Swapping
  <2> QED
    BY <1>5, <1>6, <2>1 DEF SwapInv
<1>11. OwnInv(X)'
  <2> USE DEF OwnersKept
  <2>1. \A k \in Jobs : Pending(k)' /\ Photo[k] \notin X =>
          Photo[k] \in files /\ Photo[k] \notin rows
    BY <1>4
  <2>2. \A k, l \in Jobs \ {j} :
          Pending(k)' /\ Pending(l)' /\ k # l /\ Photo[k] \notin X => Photo[k] # Photo[l]
    BY <1>0, <1>4 DEF OwnInv
  <2>3. \A k \in Jobs \ {j} : Pending(k)' /\ Pending(j)' => Photo[j] # Photo[k]
    BY <1>4
  <2> QED
    BY <2>1, <2>2, <2>3 DEF OwnInv
<1>12. ConnInv(X)'
  BY <1>0, <1>3, <1>4, <1>6 DEF ConnInv
<1>13. PackInv(B)'
  <2>1. ASSUME NEW k \in Jobs \ {j} PROVE PackAt(B, k)'
    <3>1. PackAt(B, k) /\ at'[k] = at[k]
      BY <1>0, <1>1 DEF PackInv
    <3>2. at[k] = "vacuum" => Lists(package[k].files, rows, B[k])
      BY <3>1 DEF PackAt, Lists
    <3> QED
      BY <3>1, <3>2 DEF PackAt
  <2> QED
    BY <1>0, <1>5, <2>1 DEF PackInv, Restorable
<1>14. LeftInv(X)'
  <2> SUFFICES ASSUME crashes = 0
               PROVE  /\ \A p \in (files \ rows) \ X :
                           \E k \in Jobs : Pending(k)' /\ Photo[k] = p
                      /\ \A p \in temp' : \E k \in Jobs : Staged(k)' /\ Photo[k] = p
    BY <1>7 DEF LeftInv
  <2>1. ASSUME NEW p \in (files \ rows) \ X
        PROVE  \E k \in Jobs : Pending(k)' /\ Photo[k] = p
    <3>1. CASE Pending(j)' /\ p = Photo[j]
      BY <3>1
    <3>2. CASE p \in active.files \ active.rows /\ ~(Pending(j) /\ p = Photo[j])
      <4>1. PICK k \in Jobs : Pending(k) /\ Photo[k] = p
        BY <1>0, <1>3, <2>1, <3>2 DEF LeftInv
      <4> QED
        BY <1>4, <3>2, <4>1
    <3> QED
      BY <2>1, <3>1, <3>2 DEF TracesKept
  <2>2. ASSUME NEW p \in temp'
        PROVE  \E k \in Jobs : Staged(k)' /\ Photo[k] = p
    <3>1. CASE Staged(j)' /\ p = Photo[j]
      BY <3>1
    <3>2. CASE p \in temp /\ ~(Staged(j) /\ p = Photo[j])
      <4>1. PICK k \in Jobs : Staged(k) /\ Photo[k] = p
        BY <1>0, <3>2 DEF LeftInv
      <4> QED
        BY <1>4, <3>2, <4>1
    <3> QED
      BY <2>2, <3>1, <3>2 DEF PartsKept
  <2> QED
    BY <2>1, <2>2
<1>15. AckInv(X)'
  <2>1. AckAt(X, j)'
    <3>1. CASE s = "close"
      <4>1. Kind[j] \in {"agenda", "evidence", "inventory"}
        BY Adds DEF Staging
      <4> QED
        BY <1>1, <1>7, <3>1, <4>1 DEF AckAt, Swapping
    <3> QED
      BY <1>5, <3>1
  <2>2. ASSUME NEW k \in Jobs \ {j} PROVE AckAt(X, k)'
    <3>1. AckAt(X, k) /\ at'[k] = at[k]
      BY <1>0, <1>1 DEF AckInv
    <3>2. Kind[k] = "restore" /\ at[k] \in {"files", "save"} \cup Swapping =>
            rows = active.rows
      BY DEF Holding, Swapping, Outside, Ended
    <3> QED
      BY <1>3, <1>7, <3>1, <3>2 DEF AckAt
  <2> QED
    BY <2>1, <2>2 DEF AckInv
<1> QED
  BY <1>8, <1>9, <1>10, <1>11, <1>12, <1>13, <1>14, <1>15 DEF DataInv

\* What the data root is made of.
LEMMA RootTyped ==
  ASSUME NEW X, NEW B, IInv(X, B)
  PROVE  /\ active \in [rows : Sets, files : Sets] /\ old \in [rows : Sets, files : Sets]
         /\ active = [rows |-> active.rows, files |-> active.files]
         /\ old = [rows |-> old.rows, files |-> old.files]
         /\ active.rows \in Sets /\ active.files \in Sets
         /\ old.rows \in Sets /\ old.files \in Sets
         /\ {} \in Sets /\ {} # NoFile
         /\ \A S \in Sets, P \in SUBSET Photos :
              S # NoFile => S \cup P \in Sets /\ S \cup P # NoFile
                            /\ S \ P \in Sets /\ S \ P # NoFile
         /\ \A j \in Jobs : Photo[j] \in Photos
         /\ temp \subseteq Photos
<1>1. active \in [rows : Sets, files : Sets] /\ old \in [rows : Sets, files : Sets]
      /\ temp \subseteq Photos
  BY DEF IInv, DataInv, DataTyped
<1>2. {} \in Sets /\ {} # NoFile
  BY NoFileIsNoSet DEF Sets
<1>3. ASSUME NEW S \in Sets, NEW P \in SUBSET Photos, S # NoFile
      PROVE  S \cup P \in Sets /\ S \cup P # NoFile /\ S \ P \in Sets /\ S \ P # NoFile
  BY <1>3, NoFileIsNoSet DEF Sets
<1> QED
  BY <1>1, <1>2, <1>3, Inputs

\* stage() begins: it makes the directory it writes to, and takes a free id.
LEMMA LookKeeps ==
  ASSUME NEW X, NEW B, IInv(X, B), NEW j \in Jobs, Look(j)
  PROVE  DataInv(X, B)'
<1> PICK s \in {"stage", "failed"} :
      /\ at' = [at EXCEPT ![j] = s]
      /\ s = "stage" => conn' = conn
      /\ s = "failed" => conn' = [conn EXCEPT ![j] = "none"]
  BY Adds DEF Look, Proceed, GoTo
<1>1. /\ at[j] = "look"
      /\ active' = [active EXCEPT !.files = IF @ = NoFile THEN {} ELSE @]
      /\ UNCHANGED <<old, temp, package, incoming, saved, crashes>>
  BY DEF Look, packs, budget
<1>2. /\ active'.rows = active.rows
      /\ active'.files = IF active.files = NoFile THEN {} ELSE active.files
      /\ active' \in [rows : Sets, files : Sets]
  BY <1>1, RootTyped
<1>3. /\ Near(X, active.rows, active'.rows) /\ Near(X, active.files, active'.files)
      /\ AsideKept(X)
  BY <1>1, <1>2 DEF Near, AsideKept
<1>4. s \in AddingSteps \cup Ended \cup {"cleanup"} /\ s \notin {"close", "done"}
  BY DEF AddingSteps, Staging, Ended
<1>5. /\ at'[j] = s /\ SwapAt(X, j)' /\ PackAt(B, j)' /\ (Midway(j)' <=> Midway(j))
      /\ AckAt(X, j)'
  BY <1>1, <1>4, AddsOn DEF Staging
<1>6. /\ Pending(j)' <=> Pending(j)
      /\ PartsKept(j)
  BY <1>1, <1>5 DEF Pending, PartsKept, Staged
<1>7. Photo[j] \notin X /\ Opened(j)' => conn'[j] = "active"
  <2>1. Opened(j)' => s = "stage" /\ Kind[j] = "inventory"
    BY <1>5 DEF Opened, Staging
  <2>2. Kind[j] = "inventory" => Opened(j)
    BY <1>1 DEF Opened
  <2> QED
    BY <2>1, <2>2 DEF IInv, DataInv, ConnInv
<1>8. /\ active' \in [rows : Sets, files : Sets] /\ old' \in [rows : Sets, files : Sets]
      /\ temp' \subseteq Photos
      /\ \A k \in Jobs : at[k] = "vacuum" =>
           active.rows \subseteq active'.rows /\ active'.rows \subseteq active.rows \cup B[k]
      /\ conn' = conn \/ conn' = [conn EXCEPT ![j] = "none"]
  BY <1>1, <1>2, RootTyped
<1> QED
  BY <1>1, <1>3, <1>5, <1>6, <1>7, <1>8, Moves

\* The .part is written, perhaps over that of another call of this id.
LEMMA StageKeeps ==
  ASSUME NEW X, NEW B, IInv(X, B), NEW j \in Jobs, Stage(j)
  PROVE  DataInv(X, B)'
<1>1. /\ at[j] = "stage" /\ at' = [at EXCEPT ![j] = "verify"]
      /\ temp' = temp \cup {Photo[j]}
      /\ UNCHANGED <<active, old, conn, package, incoming, saved, crashes>>
  BY Adds DEF Stage, Staging, Proceed, GoTo, roots, packs, budget
<1>2. "verify" \in AddingSteps
  BY DEF AddingSteps, Staging
<1>3. /\ at'[j] = "verify" /\ SwapAt(X, j)' /\ PackAt(B, j)' /\ AckAt(X, j)'
      /\ Midway(j)' <=> Midway(j)
  BY <1>1, <1>2, AddsOn DEF Staging
<1>4. /\ Pending(j)' <=> Pending(j)
      /\ PartsKept(j) /\ (Opened(j)' => Opened(j))
  BY <1>1, <1>3 DEF Pending, PartsKept, Staged, Opened, Staging
<1>5. Photo[j] \notin X /\ Opened(j)' => conn'[j] = "active"
  BY <1>1, <1>4 DEF IInv, DataInv, ConnInv
<1>6. temp' \subseteq Photos
  BY <1>1, RootTyped
<1> QED
  BY <1>1, <1>3, <1>4, <1>5, <1>6, RootTyped, NearSame, Moves

\* The second look only reads.
LEMMA VerifyKeeps ==
  ASSUME NEW X, NEW B, IInv(X, B), NEW j \in Jobs, Verify(j), ~Fail(j)
  PROVE  DataInv(X, B)'
<1>1. /\ at[j] = "verify" /\ at' = [at EXCEPT ![j] = "finalize"]
      /\ UNCHANGED <<active, old, temp, conn, package, incoming, saved, crashes>>
  BY Adds DEF Verify, Refuse, Staging, Proceed, GoTo, roots, packs, budget
<1>2. "finalize" \in AddingSteps
  BY DEF AddingSteps, Staging
<1>3. /\ at'[j] = "finalize" /\ SwapAt(X, j)' /\ PackAt(B, j)' /\ AckAt(X, j)'
      /\ Midway(j)' <=> Midway(j)
  BY <1>1, <1>2, AddsOn DEF Staging
<1>4. /\ Pending(j)' <=> Pending(j)
      /\ PartsKept(j) /\ (Opened(j)' => Opened(j))
  BY <1>1, <1>3 DEF Pending, PartsKept, Staged, Opened, Staging
<1>5. Photo[j] \notin X /\ Opened(j)' => conn'[j] = "active"
  BY <1>1, <1>4 DEF IInv, DataInv, ConnInv
<1> QED
  BY <1>1, <1>3, <1>4, <1>5, RootTyped, NearSame, Moves

\* After finalize the call waits for what comes next, and owns its file.
LEMMA Finalizes ==
  ASSUME NEW X, NEW B, IInv(X, B), NEW j \in Jobs, at[j] = "finalize",
         at' = [at EXCEPT ![j] = After(j)]
  PROVE  ~Pending(j) /\ Pending(j)' /\ (Opened(j)' => Opened(j))
<1>1. at'[j] = After(j) /\ Kind[j] \in {"agenda", "evidence", "inventory"}
  BY Adds DEF IInv, PathInv, Staging
<1>2. CASE Kind[j] = "agenda"
  BY <1>1, <1>2, AgendaPath DEF Pending, Opened, Staging
<1>3. CASE Kind[j] = "evidence"
  BY <1>1, <1>3, EvidencePath DEF Pending, Opened, Staging
<1>4. CASE Kind[j] = "inventory"
  BY <1>1, <1>4, InventoryPath DEF Pending, Opened, Staging
<1> QED
  BY <1>1, <1>2, <1>3, <1>4

\* A rename that succeeds takes a free name, so the file it makes has one owner.
LEMMA FinalizeKeeps ==
  ASSUME NEW X, NEW B, IInv(X, B), NEW j \in Jobs, Finalize(j), ~Fail(j)
  PROVE  DataInv(X, B)'
<1> DEFINE s == After(j)
           files == active.files \cup {Photo[j]}
<1>1. /\ at[j] = "finalize" /\ at' = [at EXCEPT ![j] = s]
      /\ active.files # NoFile /\ Photo[j] \in temp
      /\ active' = [active EXCEPT !.files = files]
      /\ temp' = temp \ {Photo[j]}
      /\ UNCHANGED <<old, conn, package, incoming, saved, crashes>>
  BY DEF Finalize, Refuse, Proceed, GoTo, packs, budget
<1>2. /\ s \in {"queued", "open", "commit"}
      /\ ~Pending(j) /\ Pending(j)' /\ (Opened(j)' => Opened(j))
  BY <1>1, Adds, Finalizes DEF Staging
<1>3. s \in AddingSteps /\ s \notin {"close", "done"}
  BY <1>2 DEF AddingSteps
<1>4. /\ at'[j] = s /\ SwapAt(X, j)' /\ PackAt(B, j)' /\ AckAt(X, j)'
      /\ Midway(j)' <=> Midway(j)
  BY <1>1, <1>3, AddsOn DEF Staging
<1>5. /\ active'.rows = active.rows /\ active'.files = files
      /\ active' = [rows |-> active'.rows, files |-> active'.files]
      /\ active' \in [rows : Sets, files : Sets] /\ files \in Sets /\ files # NoFile
      /\ temp' \subseteq Photos /\ PartsKept(j)
  <2>1. files \in Sets /\ files # NoFile /\ temp' \subseteq Photos
    BY <1>1, RootTyped
  <2>2. active' = [rows |-> active.rows, files |-> files]
    BY <1>1, RootTyped
  <2> QED
    BY <1>1, <1>2, <1>4, <2>1, <2>2, RootTyped DEF PartsKept, Staged
<1>6. CASE Photo[j] \in X
  <2>1. /\ Near(X, active.rows, active'.rows) /\ Near(X, active.files, active'.files)
        /\ AsideKept(X)
    BY <1>1, <1>5, <1>6 DEF Near, AsideKept
  <2>2. /\ old' \in [rows : Sets, files : Sets]
        /\ \A k \in Jobs : at[k] = "vacuum" =>
             active.rows \subseteq active'.rows /\ active'.rows \subseteq active.rows \cup B[k]
    BY <1>1, <1>5, RootTyped
  <2> QED
    BY <1>1, <1>4, <1>5, <1>6, <2>1, <2>2, Moves
<1>7. CASE Photo[j] \notin X
  <2>1. /\ active.rows \in SUBSET Photos /\ active.files \in SUBSET Photos
        /\ active.rows \ X \subseteq active.files
    BY <1>1, <1>7, Adds, CalmRoot DEF Staging, IInv
  <2>2. Photo[j] \notin active.files
    BY <1>1, <1>7 DEF IInv, StageInv
  <2>3. Photo[j] \notin active.rows
    BY <1>7, <2>1, <2>2
  <2>4. \A k \in Jobs : Pending(k) /\ Photo[k] \notin X =>
          Photo[k] \in active.files /\ Photo[k] \notin active.rows /\ Photo[j] # Photo[k]
    BY <2>2 DEF IInv, DataInv, OwnInv
  <2>5. OwnersKept(X, j) /\ TracesKept(X, j)
    BY <1>2, <1>5, <2>3, <2>4 DEF OwnersKept, TracesKept
  <2>6. /\ active'.rows \in SUBSET Photos /\ active'.files \in SUBSET Photos
        /\ active'.rows \ X \subseteq active'.files
    BY <1>5, <2>1, RootTyped
  <2> QED
    BY <1>1, <1>2, <1>3, <1>5, <1>7, <2>5, <2>6, Attaches
<1> QED
  BY <1>6, <1>7

\* A database that is not there is made blank; outside the swap it is there.
LEMMA OpenDbKeeps ==
  ASSUME NEW X, NEW B, IInv(X, B), NEW j \in Jobs, OpenDb(j), ~Fail(j)
  PROVE  DataInv(X, B)'
<1> DEFINE s == After(j)
           rows == IF active.rows = NoFile THEN {} ELSE active.rows
<1>1. /\ at[j] = "open" /\ at' = [at EXCEPT ![j] = s]
      /\ active' = [active EXCEPT !.rows = rows]
      /\ conn' = [conn EXCEPT ![j] = "active"]
      /\ UNCHANGED <<old, temp, package, incoming, saved, crashes>>
  BY DEF OpenDb, Refuse, Proceed, GoTo, packs, budget
<1>2. /\ Kind[j] \in {"agenda", "evidence", "inventory"}
      /\ s = IF Kind[j] = "inventory" THEN "look" ELSE "commit"
  BY <1>1, Adds
<1>3. s \in AddingSteps /\ s \notin {"close", "done"}
  BY <1>2 DEF AddingSteps
<1>4. /\ at'[j] = s /\ SwapAt(X, j)' /\ PackAt(B, j)' /\ AckAt(X, j)'
      /\ Midway(j)' <=> Midway(j)
  BY <1>1, <1>3, AddsOn
<1>5. /\ active'.rows = rows /\ active'.files = active.files /\ rows # NoFile
      /\ active' \in [rows : Sets, files : Sets] /\ old' \in [rows : Sets, files : Sets]
      /\ temp' \subseteq Photos /\ conn'[j] = "active"
  <2>1. rows \in Sets /\ rows # NoFile
    BY RootTyped
  <2>2. active' = [rows |-> rows, files |-> active.files]
    BY <1>1, RootTyped
  <2>3. conn'[j] = "active"
    BY <1>1 DEF IInv, DataInv, DataTyped
  <2> QED
    BY <1>1, <2>1, <2>2, <2>3, RootTyped
<1>6. /\ Near(X, active.rows, active'.rows) /\ Near(X, active.files, active'.files)
      /\ AsideKept(X)
  BY <1>1, <1>5 DEF Near, AsideKept
<1>7. /\ Pending(j)' <=> Pending(j)
      /\ PartsKept(j)
  BY <1>1, <1>2, <1>4 DEF Pending, PartsKept, Staged
<1>8. \A k \in Jobs : at[k] = "vacuum" =>
        active.rows \subseteq active'.rows /\ active'.rows \subseteq active.rows \cup B[k]
  <2> SUFFICES ASSUME NEW k \in Jobs, at[k] = "vacuum" PROVE active.rows # NoFile
    BY <1>5
  <2>1. Calm
    BY CalmAt, KindAt DEF IInv, Outside, Ended, Midway, Swapping
  <2> QED
    BY <2>1, CalmRoot DEF IInv
<1> QED
  BY <1>1, <1>4, <1>5, <1>6, <1>7, <1>8, Moves

\* A commit gives the row to the file its own call put there.
LEMMA CommitKeeps ==
  ASSUME NEW X, NEW B, IInv(X, B), NEW j \in Jobs, Commit(j), ~Fail(j)
  PROVE  DataInv(X, B)'
<1>1. /\ at[j] = "commit" /\ at' = [at EXCEPT ![j] = "close"] /\ Pending(j) /\ Opened(j)
      /\ UNCHANGED <<temp, conn, package, incoming, saved, crashes>>
  BY Adds DEF Commit, Refuse, Proceed, GoTo, packs, budget, Opened
<1>2. "close" \in AddingSteps
  BY DEF AddingSteps
<1>3. /\ at'[j] = "close" /\ SwapAt(X, j)' /\ PackAt(B, j)' /\ ~Midway(j) /\ ~Midway(j)'
      /\ Photo[j] \in X => AckAt(X, j)'
  BY <1>1, <1>2, AddsOn, Adds
<1>4. ~Pending(j)' /\ ~Opened(j)' /\ temp' \subseteq Photos /\ PartsKept(j)
  BY <1>1, <1>3, RootTyped DEF Pending, Opened, Staging, PartsKept, Staged
<1>5. \A k \in Jobs : at[k] = "vacuum" => Photo[j] \in B[k]
  BY <1>1, KindAt, CommitBeside DEF IInv
<1>6. \A k \in Jobs : Kind[k] = "restore" /\ Holding(k) => Photo[j] \in X
  BY <1>1, CommitBeside
<1>7. CASE conn[j] = "active"
  <2>1. active.rows # NoFile
    BY <1>7 DEF IInv, DataInv, ConnInv
  <2> DEFINE rows == active.rows \cup {Photo[j]}
  <2>2. active' = [active EXCEPT !.rows = rows] /\ old' = old
    BY <1>7 DEF Commit, Refuse
  <2>3. /\ active'.rows = rows /\ active'.files = active.files
        /\ active' = [rows |-> active'.rows, files |-> active'.files]
        /\ active' \in [rows : Sets, files : Sets] /\ rows # NoFile
        /\ old' \in [rows : Sets, files : Sets]
    <3>1. rows \in Sets /\ rows # NoFile
      BY <2>1, RootTyped
    <3>2. active' = [rows |-> rows, files |-> active.files]
      BY <2>2, RootTyped
    <3> QED
      BY <2>2, <3>1, <3>2, RootTyped
  <2>4. \A k \in Jobs : at[k] = "vacuum" =>
          active.rows \subseteq active'.rows /\ active'.rows \subseteq active.rows \cup B[k]
    BY <1>5, <2>3
  <2>5. CASE Photo[j] \in X
    <3>1. /\ Near(X, active.rows, active'.rows) /\ Near(X, active.files, active'.files)
          /\ AsideKept(X)
      BY <2>1, <2>2, <2>3, <2>5 DEF Near, AsideKept
    <3> QED
      BY <1>1, <1>3, <1>4, <2>3, <2>4, <2>5, <3>1, Moves
  <2>6. CASE Photo[j] \notin X
    <3>1. /\ active.rows \in SUBSET Photos /\ active.files \in SUBSET Photos
          /\ active.rows \ X \subseteq active.files
      BY <1>1, <2>6, Adds, CalmRoot DEF IInv
    <3>2. /\ Photo[j] \in active.files
          /\ \A k \in Jobs : Pending(k) /\ Photo[k] \notin X =>
               /\ Photo[k] \in active.files /\ Photo[k] \notin active.rows
               /\ k # j => Photo[j] # Photo[k]
      BY <1>1, <2>6 DEF IInv, DataInv, OwnInv
    <3>3. OwnersKept(X, j) /\ TracesKept(X, j)
      BY <1>4, <2>3, <3>2 DEF OwnersKept, TracesKept
    <3>4. /\ active'.rows \in SUBSET Photos /\ active'.files \in SUBSET Photos
          /\ active'.rows \ X \subseteq active'.files /\ Photo[j] \in active'.rows
          /\ active.rows \subseteq active'.rows
      BY <2>3, <3>1, <3>2, RootTyped
    <3>5. \A k \in Jobs : Kind[k] = "restore" /\ Holding(k) => active'.rows = active.rows
      BY <1>6, <2>6
    <3> HIDE DEF rows
    <3> QED
      BY <1>1, <1>2, <1>4, <2>2, <2>3, <2>4, <2>6, <3>3, <3>4, <3>5, Attaches
  <2> QED
    BY <2>5, <2>6
<1>8. CASE conn[j] # "active"
  <2>1. Photo[j] \in X
    BY <1>1, <1>8 DEF IInv, DataInv, ConnInv
  <2>2. /\ active' = active
        /\ old' = old \/ (conn[j] = "old" /\ old' = [old EXCEPT !.rows = @ \cup {Photo[j]}])
    BY <1>8 DEF Commit, Refuse, roots
  <2>3. AsideKept(X) /\ old' \in [rows : Sets, files : Sets]
    <3>1. CASE old' = old
      BY <3>1, RootTyped DEF AsideKept
    <3>2. CASE conn[j] = "old" /\ old' = [old EXCEPT !.rows = @ \cup {Photo[j]}]
      <4>1. PICK r \in Jobs : Midway(r)
        BY <3>2 DEF IInv, DataInv, ConnInv, Calm
      <4>2. old.rows # NoFile
        BY <4>1 DEF IInv, DataInv, SwapInv, SwapAt
      <4>3. old.rows \cup {Photo[j]} \in Sets /\ old.rows \cup {Photo[j]} # NoFile
        BY <4>2, RootTyped
      <4>4. old' = [rows |-> old.rows \cup {Photo[j]}, files |-> old.files]
        BY <3>2, RootTyped
      <4> QED
        BY <2>1, <4>2, <4>3, <4>4, RootTyped DEF AsideKept
    <3> QED
      BY <2>2, <3>1, <3>2
  <2>4. /\ Near(X, active.rows, active'.rows) /\ Near(X, active.files, active'.files)
        /\ \A k \in Jobs : at[k] = "vacuum" =>
             active.rows \subseteq active'.rows /\ active'.rows \subseteq active.rows \cup B[k]
    BY <2>2 DEF Near
  <2> QED
    BY <1>1, <1>3, <1>4, <2>1, <2>2, <2>3, <2>4, RootTyped, Moves
<1> QED
  BY <1>7, <1>8

\* Closing the database changes neither rows nor files.
LEMMA CloseKeeps ==
  ASSUME NEW X, NEW B, IInv(X, B), NEW j \in Jobs, Close(j)
  PROVE  DataInv(X, B)'
<1>1. /\ at[j] = "close" /\ at' = [at EXCEPT ![j] = "done"]
      /\ conn' = [conn EXCEPT ![j] = "none"]
      /\ UNCHANGED <<active, old, temp, package, incoming, saved, crashes>>
  BY Adds DEF Close, Proceed, GoTo, roots, packs, budget
<1>2. "done" \in Ended
  BY DEF Ended
<1>3. /\ at'[j] = "done" /\ SwapAt(X, j)' /\ PackAt(B, j)' /\ (Midway(j)' <=> Midway(j))
  BY <1>1, <1>2, AddsOn
<1>4. /\ Pending(j)' <=> Pending(j)
      /\ ~Opened(j)' /\ PartsKept(j)
  BY <1>1, <1>3 DEF Pending, Opened, Staging, PartsKept, Staged
<1>5. AckAt(X, j)'
  BY <1>1, <1>3 DEF AckAt, Swapping, KeptRows, IInv, DataInv, AckInv
<1> QED
  BY <1>1, <1>3, <1>4, <1>5, RootTyped, NearSame, Moves

\* A clean-up deletes the file of its own call, which has no row.
LEMMA CleanupKeeps ==
  ASSUME NEW X, NEW B, IInv(X, B), NEW j \in Jobs, Cleanup(j)
  PROVE  DataInv(X, B)'
<1> DEFINE files == IF active.files = NoFile THEN NoFile ELSE active.files \ {Photo[j]}
<1>1. /\ at[j] = "cleanup" /\ at' = [at EXCEPT ![j] = "failed"]
      /\ active' = [active EXCEPT !.files = files]
      /\ UNCHANGED <<old, temp, conn, package, incoming, saved, crashes>>
  BY DEF Cleanup, GoTo, packs, budget
<1>2. "failed" \in Ended
  BY DEF Ended
<1>3. /\ at'[j] = "failed" /\ SwapAt(X, j)' /\ PackAt(B, j)' /\ AckAt(X, j)'
      /\ Midway(j)' <=> Midway(j)
      /\ Kind[j] \in {"agenda", "evidence", "inventory"}
  BY <1>1, <1>2, AddsOn, Adds
<1>4. /\ Pending(j) /\ ~Pending(j)' /\ ~Opened(j)' /\ PartsKept(j)
  BY <1>1, <1>3 DEF Pending, Opened, Staging, PartsKept, Staged
<1>5. /\ active'.rows = active.rows /\ active'.files = files
      /\ active' = [rows |-> active'.rows, files |-> active'.files]
      /\ active' \in [rows : Sets, files : Sets] /\ old' \in [rows : Sets, files : Sets]
      /\ temp' \subseteq Photos
      /\ \A k \in Jobs : at[k] = "vacuum" =>
           active.rows \subseteq active'.rows /\ active'.rows \subseteq active.rows \cup B[k]
  <2>1. files \in Sets
    BY RootTyped
  <2>2. active' = [rows |-> active.rows, files |-> files]
    BY <1>1, RootTyped
  <2> QED
    BY <1>1, <2>1, <2>2, RootTyped
<1>6. CASE Photo[j] \in X
  <2>1. /\ Near(X, active.rows, active'.rows) /\ Near(X, active.files, active'.files)
        /\ AsideKept(X)
    <3>1. active.files # NoFile => files # NoFile
      BY RootTyped
    <3> QED
      BY <1>1, <1>5, <1>6, <3>1 DEF Near, AsideKept
  <2> QED
    BY <1>1, <1>3, <1>4, <1>5, <1>6, <2>1, Moves
<1>7. CASE Photo[j] \notin X
  <2>1. /\ active.rows \in SUBSET Photos /\ active.files \in SUBSET Photos
        /\ active.rows \ X \subseteq active.files /\ active.files # NoFile
    BY <1>1, <1>7, Adds, CalmRoot DEF IInv
  <2>2. /\ Photo[j] \notin active.rows
        /\ \A k \in Jobs : Pending(k) /\ Photo[k] \notin X =>
             /\ Photo[k] \in active.files /\ Photo[k] \notin active.rows
             /\ k # j => Photo[j] # Photo[k]
    BY <1>4, <1>7 DEF IInv, DataInv, OwnInv
  <2>3. files = active.files \ {Photo[j]}
    BY <2>1
  <2>4. OwnersKept(X, j) /\ TracesKept(X, j)
    BY <1>4, <1>5, <2>2, <2>3 DEF OwnersKept, TracesKept
  <2>5. /\ active'.rows \in SUBSET Photos /\ active'.files \in SUBSET Photos
        /\ active'.rows \ X \subseteq active'.files
    BY <1>5, <2>1, <2>2, <2>3
  <2> QED
    BY <1>1, <1>2, <1>4, <1>5, <1>7, <2>4, <2>5, Attaches
<1> QED
  BY <1>6, <1>7

\* What a call that throws outside the swap leaves.
LEMMA FailKeeps ==
  ASSUME NEW X, NEW B, IInv(X, B), NEW j \in Jobs,
         at[j] \in Steps \ {"queued", "close"}, ~Midway(j),
         Fail(j), crashes' = crashes
  PROVE  DataInv(X, B)'
<1>1. Kind[j] = "restore" /\ at[j] \in Swapping =>
        old = Nothing /\ active = [rows |-> active.rows, files |-> active.files]
  <2> SUFFICES ASSUME at[j] \in Swapping
               PROVE  old = Nothing /\ active = [rows |-> active.rows, files |-> active.files]
    OBVIOUS
  <2>1. Calm
    BY CalmAt, KindAt DEF IInv, Outside, Ended, Swapping
  <2> QED
    BY <2>1, CalmRoot DEF IInv
<1>2. /\ at' = [at EXCEPT ![j] = at'[j]]
      /\ at'[j] = IF OwnsFile(j) THEN "cleanup" ELSE "failed"
      /\ active' = active /\ old' = old
      /\ temp' = IF at[j] \in Staging THEN temp \ {Photo[j]} ELSE temp
      /\ UNCHANGED <<package, incoming, saved>>
      /\ conn' = conn \/ conn' = [conn EXCEPT ![j] = "none"]
  <2>1. /\ at' = [at EXCEPT ![j] = at'[j]]
        /\ at'[j] = IF OwnsFile(j) THEN "cleanup" ELSE "failed"
    BY DEF Fail, IInv, PathInv
  <2>2. CASE Kind[j] = "restore" /\ at[j] \in Swapping
    BY <1>1, <2>1, <2>2 DEF Fail, PutOldBack, Nothing, packs
  <2>3. CASE ~(Kind[j] = "restore" /\ at[j] \in Swapping)
    BY <2>1, <2>3 DEF Fail, packs, roots
  <2> QED
    BY <2>2, <2>3
<1>3. OwnsFile(j) <=> Pending(j)
  <2>1. CASE at[j] \in Staging \cup {"look", "open", "commit"}
    BY <2>1, Adds DEF Staging
  <2>2. CASE at[j] \notin Staging \cup {"look", "open", "commit"}
    <3>1. Kind[j] \in {"backup", "restore"}
      BY <2>2, KindAt DEF IInv, Steps, Swapping
    <3> QED
      BY <3>1 DEF OwnsFile, Pending, Attaching
  <2> QED
    BY <2>1, <2>2
<1>4. /\ ~Opened(j)' /\ ~Midway(j)'
      /\ Pending(j)' <=> Pending(j)
  <2>1. OwnsFile(j) => Kind[j] \in {"agenda", "evidence", "inventory"}
    BY DEF OwnsFile, Attaching
  <2> QED
    BY <1>2, <1>3, <2>1 DEF Pending, Opened, Midway, Swapping, Staging
<1>5. PartsKept(j) /\ temp' \subseteq Photos
  <2>1. Staged(j) => at[j] \in Staging
    BY DEF Staged, Staging
  <2> QED
    BY <1>2, <2>1, RootTyped DEF PartsKept
<1>6. SwapAt(X, j)' /\ (j \in saved => at'[j] = "failed")
  <2>1. SwapAt(X, j)'
    BY <1>2, <1>4 DEF SwapAt, Midway, Swapping
  <2>2. j \in saved => at[j] \in Swapping
    BY DEF IInv, DataInv, PackInv, PackAt, Steps, Staging, Ended
  <2>3. at[j] \in Swapping => ~OwnsFile(j)
    BY KindAt DEF IInv, OwnsFile, Attaching
  <2> QED
    BY <1>2, <2>1, <2>2, <2>3
<1>7. PackAt(B, j)'
  BY <1>2, <1>6 DEF IInv, DataInv, PackInv, PackAt, Ended
<1>8. AckAt(X, j)'
  BY <1>2 DEF AckAt, Swapping
<1> QED
  BY <1>2, <1>4, <1>5, <1>6, <1>7, <1>8, RootTyped, NearSame, Moves

-----------------------------------------------------------------------------
(* Backup, and restore up to its swap. *)

\* A backup changes only its own package, and reads the root at rest.
LEMMA Packs ==
  ASSUME NEW X, NEW B, IInv(X, B), NEW j \in Jobs, at[j] \in {"rows", "vacuum", "files", "save", "prepare"},
         at' = [at EXCEPT ![j] = at'[j]],
         at'[j] \in {"rows", "vacuum", "files", "save", "old_db", "done"},
         UNCHANGED <<active, old, temp, crashes>>,
         package' \in [Jobs -> [rows : SUBSET Photos, files : SUBSET Photos]],
         incoming' \in [Jobs -> [rows : SUBSET Photos, files : SUBSET Photos]],
         saved' \subseteq Jobs,
         \/ conn' = conn
         \/ conn' = [conn EXCEPT ![j] = "none"]
         \/ conn' = [conn EXCEPT ![j] = "active"],
         \A k \in Jobs \ {j} : /\ package'[k] = package[k]
                               /\ k \in saved' <=> k \in saved,
         \A k \in Jobs : Restorable(incoming[k])',
         PackAt(B, j)', AckAt(X, j)'
  PROVE  DataInv(X, B)'
<1>1. \A k \in Jobs \ {j} : at'[k] = at[k]
  BY DEF IInv, PathInv
<1>2. Calm /\ Kind[j] \in {"backup", "restore"}
  BY CalmAt, KindAt DEF IInv, Outside, Ended, Midway, Swapping
<1>3. /\ old = Nothing /\ active.rows # NoFile
      /\ \A k \in Jobs : conn[k] # "old"
  BY <1>2, CalmRoot DEF IInv
<1>4. \A k \in Jobs : /\ ~Midway(k)' /\ ~Midway(k)
                      /\ Pending(k)' <=> Pending(k)
                      /\ Staged(k)' <=> Staged(k)
                      /\ Opened(k)' <=> k # j /\ Opened(k)
                      /\ Opened(k) => k # j
  <2>1. \A k \in Jobs \ {j} : /\ Pending(k)' <=> Pending(k)
                              /\ Midway(k)' <=> Midway(k)
                              /\ Opened(k)' <=> Opened(k)
                              /\ Staged(k)' <=> Staged(k)
    BY <1>1 DEF Pending, Midway, Opened, Staged
  <2>2. /\ ~Midway(j)' /\ ~Pending(j) /\ ~Pending(j)'
        /\ ~Opened(j) /\ ~Opened(j)' /\ ~Staged(j) /\ ~Staged(j)'
    BY <1>2 DEF Pending, Midway, Opened, Swapping, Staged
  <2> QED
    BY <1>1, <1>2, <2>1, <2>2 DEF Calm
<1>5. DataTyped'
  BY DEF IInv, DataInv, DataTyped
<1>6. KeptInv(X)' /\ OwnInv(X)' /\ LeftInv(X)'
  <2>1. KeptRows' = KeptRows /\ KeptFiles' = KeptFiles
    BY DEF KeptRows, KeptFiles
  <2>2. KeptInv(X)' /\ OwnInv(X)'
    BY <1>4, <2>1 DEF IInv, DataInv, KeptInv, OwnInv
  <2>3. LeftInv(X)'
    BY <1>4, <2>1 DEF IInv, DataInv, LeftInv
  <2> QED
    BY <2>2, <2>3
<1>7. SwapInv(X)'
  BY <1>3, <1>4 DEF SwapInv, SwapAt, Midway, Swapping
<1>8. ConnInv(X)'
  <2>1. /\ \A k \in Jobs \ {j} : conn'[k] = conn[k]
        /\ conn'[j] \in {conn[j], "none", "active"}
    BY DEF IInv, DataInv, DataTyped
  <2> QED
    BY <1>3, <1>4, <2>1 DEF IInv, DataInv, ConnInv
<1>9. PackInv(B)'
  <2>1. \A k \in Jobs \ {j} : PackAt(B, k)'
    BY <1>1 DEF IInv, DataInv, PackInv, PackAt, Restorable
  <2> QED
    BY <2>1 DEF PackInv, Restorable
<1>10. AckInv(X)'
  <2>1. j \notin saved
    BY DEF IInv, DataInv, PackInv, PackAt, Swapping, Ended
  <2>2. saved \subseteq saved' /\ \A k \in saved : package'[k] = package[k]
    BY <2>1 DEF IInv, DataInv, DataTyped
  <2>3. KeptRows' = KeptRows
    BY DEF KeptRows
  <2>4. \A k \in Jobs \ {j} : AckAt(X, k)'
    BY <1>1, <2>2, <2>3 DEF IInv, DataInv, AckInv, AckAt
  <2> QED
    BY <2>4 DEF AckInv
<1> QED
  BY <1>5, <1>6, <1>7, <1>8, <1>9, <1>10 DEF DataInv

\* What the steps of a backup need to know of the call that makes it.
LEMMA PackingStep ==
  ASSUME NEW X, NEW B, IInv(X, B), NEW j \in Jobs, at[j] \in {"rows", "vacuum", "files", "save", "prepare"}
  PROVE  /\ Calm /\ Kind[j] \in {"backup", "restore"} /\ j \notin saved
         /\ at[j] = "prepare" => After(j) = "rows"
         /\ at[j] = "rows" => After(j) = "vacuum"
         /\ at[j] = "vacuum" => After(j) = "files"
         /\ at[j] = "files" => After(j) = "save"
         /\ at[j] = "save" =>
              After(j) = IF Kind[j] = "backup" THEN "done" ELSE "old_db"
<1>1. /\ Calm /\ Kind[j] \in {"backup", "restore"}
      /\ at[j] = "prepare" => Kind[j] = "restore"
  BY CalmAt, KindAt DEF IInv, Outside, Ended, Midway, Swapping
<1>2. j \notin saved
  BY DEF IInv, DataInv, PackInv, PackAt, Swapping, Ended
<1>3. CASE Kind[j] = "backup"
  BY <1>1, <1>2, <1>3, BackupPath
<1>4. CASE Kind[j] = "restore"
  BY <1>1, <1>2, <1>4, RestorePath
<1> QED
  BY <1>1, <1>3, <1>4

\* The list of rows and the snapshot are read at the same rows.
LEMMA ReadRowsKeeps ==
  ASSUME NEW X, NEW B, IInv(X, B), NEW j \in Jobs, ReadRows(j)
  PROVE  DataInv(X, B)'
<1>1. /\ at[j] = "rows" /\ Calm /\ j \notin saved /\ After(j) = "vacuum"
  BY PackingStep DEF ReadRows
<1>2. active.rows \in SUBSET Photos
  BY <1>1, CalmRoot DEF IInv
<1>3. /\ at' = [at EXCEPT ![j] = "vacuum"]
      /\ package' = [package EXCEPT ![j].files = active.rows]
      /\ conn' = [conn EXCEPT ![j] = "active"]
      /\ UNCHANGED <<active, old, temp, crashes, incoming, saved>>
  BY <1>1 DEF ReadRows, Proceed, GoTo, roots, budget
<1>4. package \in [Jobs -> [rows : SUBSET Photos, files : SUBSET Photos]]
  BY DEF IInv, DataInv, DataTyped
<1>5. /\ package' \in [Jobs -> [rows : SUBSET Photos, files : SUBSET Photos]]
      /\ package'[j].files = active.rows
      /\ \A k \in Jobs \ {j} : package'[k] = package[k]
  BY <1>2, <1>3, <1>4
<1>6. at'[j] = "vacuum"
  BY <1>3 DEF IInv, PathInv
<1>7. PackAt(B, j)' /\ \A k \in Jobs : Restorable(incoming[k])'
  BY <1>1, <1>3, <1>5, <1>6 DEF PackAt, Lists, IInv, DataInv, PackInv, Restorable
<1>8. /\ incoming' \in [Jobs -> [rows : SUBSET Photos, files : SUBSET Photos]]
      /\ saved' \subseteq Jobs
  BY <1>3 DEF IInv, DataInv, DataTyped
<1>9. AckAt(X, j)'
  BY <1>1, <1>3, <1>6
     DEF AckAt, Swapping
<1> QED
  BY <1>1, <1>3, <1>5, <1>6, <1>7, <1>8, <1>9, Packs

\* The snapshot has the rows that were listed, and of assets that came between.
LEMMA VacuumKeeps ==
  ASSUME NEW X, NEW B, IInv(X, B), NEW j \in Jobs, Vacuum(j)
  PROVE  DataInv(X, B)'
<1>1. /\ at[j] = "vacuum" /\ Calm /\ j \notin saved /\ After(j) = "files"
  BY PackingStep DEF Vacuum
<1>2. active.rows \in SUBSET Photos
  BY <1>1, CalmRoot DEF IInv
<1>3. /\ at' = [at EXCEPT ![j] = "files"]
      /\ package' = [package EXCEPT ![j].rows = active.rows]
      /\ conn' = [conn EXCEPT ![j] = "none"]
      /\ UNCHANGED <<active, old, temp, crashes, incoming, saved>>
  BY <1>1 DEF Vacuum, Proceed, GoTo, roots, budget
<1>4. /\ package \in [Jobs -> [rows : SUBSET Photos, files : SUBSET Photos]]
      /\ Lists(package[j].files, active.rows, B[j])
  BY <1>1 DEF IInv, DataInv, DataTyped, PackInv, PackAt
<1>5. /\ package' \in [Jobs -> [rows : SUBSET Photos, files : SUBSET Photos]]
      /\ package'[j].files = package[j].files /\ package'[j].rows = active.rows
      /\ \A k \in Jobs \ {j} : package'[k] = package[k]
  BY <1>2, <1>3, <1>4
<1>6. at'[j] = "files"
  BY <1>3 DEF IInv, PathInv
<1>7. PackAt(B, j)' /\ \A k \in Jobs : Restorable(incoming[k])'
  BY <1>1, <1>3, <1>5, <1>6 DEF PackAt, Lists, IInv, DataInv, PackInv, Restorable
<1>8. /\ incoming' \in [Jobs -> [rows : SUBSET Photos, files : SUBSET Photos]]
      /\ saved' \subseteq Jobs
  BY <1>3 DEF IInv, DataInv, DataTyped
<1>9. AckAt(X, j)'
  BY <1>1, <1>3, <1>5, <1>6, PackingStep, CalmRoot
     DEF AckAt, Swapping, KeptRows, IInv
<1> QED
  BY <1>1, <1>3, <1>5, <1>6, <1>7, <1>8, <1>9, Packs

\* Reading the files changes nothing.
LEMMA ReadFilesKeeps ==
  ASSUME NEW X, NEW B, IInv(X, B), NEW j \in Jobs, ReadFiles(j), ~Fail(j)
  PROVE  DataInv(X, B)'
<1>1. /\ at[j] = "files" /\ j \notin saved /\ After(j) = "save"
  BY PackingStep DEF ReadFiles
<1>2. /\ at' = [at EXCEPT ![j] = "save"] /\ at'[j] = "save"
      /\ UNCHANGED <<active, old, temp, crashes, conn, package, incoming, saved>>
  BY <1>1 DEF ReadFiles, Refuse, Proceed, GoTo, roots, packs, budget, IInv, PathInv
<1>3. PackAt(B, j)' /\ \A k \in Jobs : Restorable(incoming[k])'
  BY <1>1, <1>2 DEF PackAt, IInv, DataInv, PackInv, Restorable
<1>4. /\ package' \in [Jobs -> [rows : SUBSET Photos, files : SUBSET Photos]]
      /\ incoming' \in [Jobs -> [rows : SUBSET Photos, files : SUBSET Photos]]
      /\ saved' \subseteq Jobs
  BY <1>2 DEF IInv, DataInv, DataTyped
<1>9. AckAt(X, j)'
  BY <1>1, <1>2
     DEF AckAt, Swapping, KeptRows, IInv, DataInv, AckInv
<1> QED
  BY <1>1, <1>2, <1>3, <1>4, <1>9, Packs

\* What is saved has a file for every row, but for assets that came between.
LEMMA SaveKeeps ==
  ASSUME NEW X, NEW B, IInv(X, B), NEW j \in Jobs, Save(j)
  PROVE  DataInv(X, B)'
<1>1. /\ at[j] = "save" /\ j \notin saved /\ After(j) \in {"done", "old_db"}
      /\ Kind[j] \in {"backup", "restore"}
  BY PackingStep DEF Save
<1>2. /\ at' = [at EXCEPT ![j] = After(j)] /\ at'[j] = After(j)
      /\ saved' = saved \cup {j}
      /\ UNCHANGED <<active, old, temp, crashes, conn, package, incoming>>
  BY <1>1 DEF Save, Proceed, GoTo, roots, budget, IInv, PathInv
<1>3. PackAt(B, j)' /\ \A k \in Jobs : Restorable(incoming[k])'
  BY <1>1, <1>2 DEF PackAt, IInv, DataInv, PackInv, Restorable, Swapping, Ended
<1>4. /\ package' \in [Jobs -> [rows : SUBSET Photos, files : SUBSET Photos]]
      /\ incoming' \in [Jobs -> [rows : SUBSET Photos, files : SUBSET Photos]]
      /\ saved' \subseteq Jobs
  BY <1>2 DEF IInv, DataInv, DataTyped
<1>9. AckAt(X, j)'
  BY <1>1, <1>2
     DEF AckAt, Swapping, Attaching, KeptRows, IInv, DataInv, AckInv
<1> QED
  BY <1>1, <1>2, <1>3, <1>4, <1>9, Packs

\* What a restore prepares has a file for every row.
LEMMA PrepareKeeps ==
  ASSUME NEW X, NEW B, IInv(X, B), NEW j \in Jobs, Prepare(j), ~Fail(j)
  PROVE  DataInv(X, B)'
<1>1. /\ at[j] = "prepare" /\ j \notin saved /\ After(j) = "rows"
  BY PackingStep DEF Prepare
<1>2. PICK p \in {Empty} \cup {package[k] : k \in saved} :
        Restorable(p) /\ incoming' = [incoming EXCEPT ![j] = p]
  BY DEF Prepare, Refuse
<1>3. /\ at' = [at EXCEPT ![j] = "rows"] /\ at'[j] = "rows"
      /\ UNCHANGED <<active, old, temp, crashes, conn, package, saved>>
  BY <1>1 DEF Prepare, Refuse, Proceed, GoTo, roots, budget, IInv, PathInv
<1>4. p \in [rows : SUBSET Photos, files : SUBSET Photos]
  BY DEF IInv, DataInv, DataTyped, Empty
<1>5. incoming' \in [Jobs -> [rows : SUBSET Photos, files : SUBSET Photos]]
  BY <1>2, <1>4 DEF IInv, DataInv, DataTyped
<1>6. \A k \in Jobs : Restorable(incoming'[k])
  BY <1>2 DEF IInv, DataInv, DataTyped, PackInv, Restorable
<1>7. PackAt(B, j)' /\ \A k \in Jobs : Restorable(incoming[k])'
  BY <1>1, <1>3, <1>6 DEF PackAt, Restorable
<1>8. /\ package' \in [Jobs -> [rows : SUBSET Photos, files : SUBSET Photos]]
      /\ saved' \subseteq Jobs
  BY <1>3 DEF IInv, DataInv, DataTyped
<1>9. AckAt(X, j)'
  BY <1>1, <1>3
     DEF AckAt, Swapping
<1> QED
  BY <1>1, <1>3, <1>5, <1>7, <1>8, <1>9, Packs

-----------------------------------------------------------------------------
(* The swap. *)

\* A step of the swap, from the database's rename to the end.
LEMMA Swaps ==
  ASSUME NEW X, NEW B, IInv(X, B), NEW j \in Jobs, at[j] \in Swapping, Kind[j] = "restore",
         at' = [at EXCEPT ![j] = at'[j]], at'[j] \in Swapping \cup Ended,
         UNCHANGED <<temp, package, incoming, saved, crashes>>,
         active' \in [rows : Sets, files : Sets],
         old' \in [rows : Sets, files : Sets],
         conn' \in [Jobs -> {"none", "active", "old", "gone"}],
         KeptInv(X)',
         (KeptFiles' \ KeptRows') \ X \subseteq (KeptFiles \ KeptRows) \ X,
         KeptRows' = KeptRows \/ at'[j] \in Ended,
         SwapAt(X, j)', ~Midway(j)' => old' = Nothing,
         \A k \in Jobs : /\ conn'[k] = "old" => Midway(j)'
                         /\ conn'[k] = "active" => active'.rows # NoFile
  PROVE  DataInv(X, B)'
<1>0. /\ DataTyped /\ PackInv(B) /\ LeftInv(X) /\ AckInv(X) /\ PathInv /\ MeetInv(X, B)
  BY DEF IInv, DataInv
<1>1. \A k \in Jobs \ {j} : at'[k] = at[k]
  BY <1>0 DEF PathInv
<1>2. \A k \in Jobs \ {j} :
        /\ ~Midway(k)
        /\ Photo[k] \notin X => ~Pending(k) /\ ~Opened(k)
        /\ at[k] \notin {"vacuum", "files", "save"}
        /\ Kind[k] = "restore" => at[k] \notin Swapping
  <2>1. Holding(j)
    BY <1>0, KindAt
  <2>2. ASSUME NEW k \in Jobs \ {j} PROVE at[k] \notin {"vacuum", "files", "save"} \cup Swapping
    <3>1. Kind[k] \notin {"agenda", "inventory"} => at[k] \in Outside \cup {"queued"}
      BY <1>0, <2>1, RestoreAlone
    <3>2. at[k] \in {"vacuum", "files", "save"} \cup Swapping => Kind[k] \in {"backup", "restore"}
      BY <1>0, KindAt
    <3> QED
      BY <3>1, <3>2 DEF Outside, Ended, Swapping
  <2>3. \A k \in Jobs \ {j} : ~Midway(k) /\ (Photo[k] \notin X => ~Pending(k) /\ ~Opened(k))
    BY <1>0, <2>1, RestoreAlone
  <2> QED
    BY <2>2, <2>3
<1>3. \A k \in Jobs : /\ Photo[k] \notin X => ~Pending(k) /\ ~Pending(k)' /\ ~Opened(k)'
                      /\ Staged(k)' <=> Staged(k)
                      /\ at'[k] \notin {"vacuum", "files", "save"}
                      /\ k # j => ~Midway(k)'
  <2>1. \A k \in Jobs \ {j} : /\ Photo[k] \notin X => ~Pending(k)' /\ ~Opened(k)'
                              /\ ~Midway(k)' /\ (Staged(k)' <=> Staged(k))
    BY <1>1, <1>2 DEF Pending, Opened, Midway, Staged
  <2>2. /\ ~Pending(j) /\ ~Pending(j)' /\ ~Opened(j)' /\ ~Staged(j) /\ ~Staged(j)'
        /\ at'[j] \notin {"vacuum", "files", "save"}
    BY DEF Pending, Opened, Staged, Swapping, Ended
  <2> QED
    BY <1>1, <1>2, <2>1, <2>2
<1>4. DataTyped'
  BY <1>0 DEF DataTyped
<1>5. SwapInv(X)'
  <2>1. ASSUME NEW k \in Jobs \ {j} PROVE SwapAt(X, k)'
    <3>1. ~Midway(k)'
      BY <1>3
    <3> QED
      BY <3>1 DEF SwapAt, Midway, Swapping
  <2> QED
    BY <1>3, <2>1 DEF SwapInv, Calm
<1>6. OwnInv(X)'
  BY <1>3 DEF OwnInv
<1>7. ConnInv(X)'
  BY <1>3 DEF ConnInv, Calm
<1>8. PackInv(B)'
  <2>1. ASSUME NEW k \in Jobs PROVE PackAt(B, k)'
    <3>1. PackAt(B, k) /\ at'[k] \notin {"vacuum", "files", "save"}
      BY <1>0, <1>3 DEF PackInv
    <3>2. k \in saved => at'[k] \in Swapping \cup Ended
      BY <1>1, <3>1 DEF PackAt
    <3> QED
      BY <3>1, <3>2 DEF PackAt
  <2> QED
    BY <1>0, <2>1 DEF PackInv, Restorable
<1>9. LeftInv(X)'
  <2> SUFFICES ASSUME crashes = 0
               PROVE  /\ \A p \in (KeptFiles' \ KeptRows') \ X :
                           \E k \in Jobs : Pending(k)' /\ Photo[k] = p
                      /\ \A p \in temp' : \E k \in Jobs : Staged(k)' /\ Photo[k] = p
    BY DEF LeftInv
  <2>1. ASSUME NEW p \in (KeptFiles' \ KeptRows') \ X PROVE FALSE
    <3>1. p \in (KeptFiles \ KeptRows) \ X
      BY <2>1
    <3>2. PICK k \in Jobs : Pending(k) /\ Photo[k] = p
      BY <1>0, <3>1 DEF LeftInv
    <3> QED
      BY <1>3, <3>1, <3>2
  <2>2. \A p \in temp : \E k \in Jobs : Staged(k)' /\ Photo[k] = p
    BY <1>0, <1>3 DEF LeftInv
  <2> QED
    BY <2>1, <2>2
<1>10. AckInv(X)'
  <2>1. j \in saved /\ KeptRows \ X \subseteq package[j].rows
    BY <1>0 DEF AckInv, AckAt
  <2>2. AckAt(X, j)'
    <3>1. at'[j] \in {"files", "save"} \cup Swapping => KeptRows' = KeptRows
      BY DEF Swapping, Ended
    <3> QED
      BY <2>1, <3>1 DEF AckAt, Attaching
  <2>3. ASSUME NEW k \in Jobs \ {j} PROVE AckAt(X, k)'
    <3>1. AckAt(X, k) /\ at'[k] = at[k]
      BY <1>0, <1>1 DEF AckInv
    <3>2. Kind[k] = "restore" => at[k] \notin {"files", "save"} \cup Swapping
      BY <1>2
    <3>3. Kind[k] \in Attaching /\ at[k] \in {"close", "done"} =>
            \/ Photo[k] \in X
            \/ Photo[k] \in KeptRows'
            \/ \E r \in saved : Kind[r] = "restore" /\ Photo[k] \in package[r].rows
      BY <2>1, <3>1 DEF AckAt
    <3> QED
      BY <3>1, <3>2, <3>3 DEF AckAt
  <2> QED
    BY <2>2, <2>3 DEF AckInv
<1> QED
  BY <1>4, <1>5, <1>6, <1>7, <1>8, <1>9, <1>10 DEF DataInv

\* What the steps of the swap need to know, by the step.
LEMMA SwapStep ==
  ASSUME NEW X, NEW B, IInv(X, B), NEW j \in Jobs, at[j] \in Swapping
  PROVE  /\ Kind[j] = "restore"
         /\ active \in [rows : Sets, files : Sets] /\ old \in [rows : Sets, files : Sets]
         /\ active = [rows |-> active.rows, files |-> active.files]
         /\ old = [rows |-> old.rows, files |-> old.files]
         /\ incoming[j].rows \in SUBSET Photos /\ incoming[j].files = incoming[j].rows
         /\ incoming[j].rows # NoFile
         /\ KeptInv(X) /\ SwapAt(X, j)
         /\ at[j] = "old_db" => Calm /\ After(j) = "old_atts"
         /\ at[j] = "old_atts" => After(j) = "new_db"
         /\ at[j] = "new_db" => After(j) = "new_atts"
         /\ at[j] = "new_atts" => After(j) = "check"
         /\ at[j] = "check" => After(j) = "notify"
         /\ at[j] = "notify" => After(j) = "reconciling"
         /\ at[j] = "reconciling" => After(j) = "complete"
         /\ at[j] = "complete" => After(j) = "done"
<1>1. Kind[j] = "restore" /\ (at[j] = "old_db" => Calm)
  BY KindAt, CalmAt DEF IInv, Midway, Outside, Ended
<1>2. /\ active \in [rows : Sets, files : Sets] /\ old \in [rows : Sets, files : Sets]
      /\ KeptInv(X) /\ SwapAt(X, j)
      /\ incoming[j] \in [rows : SUBSET Photos, files : SUBSET Photos]
      /\ incoming[j].files = incoming[j].rows
  BY DEF IInv, DataInv, DataTyped, SwapInv, PackInv, Restorable
<1>3. /\ active = [rows |-> active.rows, files |-> active.files]
      /\ old = [rows |-> old.rows, files |-> old.files]
      /\ incoming[j].rows \in SUBSET Photos /\ incoming[j].rows # NoFile
  BY <1>2, NoFileIsNoSet
<1> QED
  BY <1>1, <1>2, <1>3, RestorePath

\* The first rename: nobody owns a file that has no row yet.
LEMMA MoveOldDbKeeps ==
  ASSUME NEW X, NEW B, IInv(X, B), NEW j \in Jobs, MoveOldDb(j), ~Fail(j)
  PROVE  DataInv(X, B)'
<1>1. /\ at[j] = "old_db" /\ at[j] \in Swapping /\ Calm /\ After(j) = "old_atts"
      /\ Kind[j] = "restore"
  BY SwapStep DEF MoveOldDb, Swapping
<1>2. /\ old = Nothing /\ active.rows \in SUBSET Photos /\ active.files \in SUBSET Photos
      /\ active.rows # NoFile /\ active.files # NoFile
      /\ active.rows \ X \subseteq active.files
      /\ KeptRows = active.rows /\ KeptFiles = active.files
      /\ active = [rows |-> active.rows, files |-> active.files]
  BY <1>1, CalmRoot DEF IInv
<1>3. /\ at' = [at EXCEPT ![j] = "old_atts"] /\ at'[j] = "old_atts"
      /\ old' = [old EXCEPT !.rows = active.rows]
      /\ active' = [active EXCEPT !.rows = NoFile]
      /\ conn' = Follow("active", "old")
      /\ UNCHANGED <<temp, package, incoming, saved, crashes>>
  BY <1>1 DEF MoveOldDb, Refuse, Proceed, GoTo, packs, budget, IInv, PathInv
<1>4. /\ old' = [rows |-> active.rows, files |-> NoFile]
      /\ active' = [rows |-> NoFile, files |-> active.files]
  BY <1>2, <1>3 DEF Nothing
<1>5. KeptRows' = active.rows /\ KeptFiles' = active.files
  BY <1>2, <1>4 DEF KeptRows, KeptFiles
<1>6. KeptInv(X)' /\ (KeptFiles' \ KeptRows') \ X \subseteq (KeptFiles \ KeptRows) \ X
  BY <1>2, <1>5 DEF KeptInv
<1>7. Midway(j)' /\ SwapAt(X, j)'
  BY <1>2, <1>3, <1>4 DEF Midway, SwapAt, Swapping
<1>8. /\ active' \in [rows : Sets, files : Sets] /\ old' \in [rows : Sets, files : Sets]
      /\ conn' \in [Jobs -> {"none", "active", "old", "gone"}]
      /\ \A k \in Jobs : conn'[k] # "active"
  BY <1>2, <1>3, <1>4 DEF Sets, Follow, IInv, DataInv, DataTyped
<1>9. at'[j] \in Swapping \cup Ended
  BY <1>3 DEF Swapping
<1> QED
  BY <1>1, <1>2, <1>5, <1>3, <1>6, <1>7, <1>8, <1>9, Swaps

\* The second rename: the old generation is whole in the rollback area.
LEMMA MoveOldAttsKeeps ==
  ASSUME NEW X, NEW B, IInv(X, B), NEW j \in Jobs, MoveOldAtts(j)
  PROVE  DataInv(X, B)'
<1>1. /\ at[j] = "old_atts" /\ at[j] \in Swapping /\ After(j) = "new_db"
      /\ Kind[j] = "restore" /\ KeptInv(X)
      /\ active \in [rows : Sets, files : Sets] /\ old \in [rows : Sets, files : Sets]
      /\ active = [rows |-> active.rows, files |-> active.files]
      /\ old = [rows |-> old.rows, files |-> old.files]
      /\ old.rows # NoFile /\ old.files = NoFile
  BY SwapStep DEF MoveOldAtts, Swapping, SwapAt
<1>2. KeptRows = old.rows /\ KeptFiles = active.files
  BY <1>1 DEF KeptRows, KeptFiles
<1>3. /\ at' = [at EXCEPT ![j] = "new_db"] /\ at'[j] = "new_db"
      /\ old' = [old EXCEPT !.files = active.files]
      /\ active' = [active EXCEPT !.files = NoFile]
      /\ UNCHANGED <<temp, conn, package, incoming, saved, crashes>>
  BY <1>1 DEF MoveOldAtts, Proceed, GoTo, packs, budget, IInv, PathInv
<1>4. /\ old' = [rows |-> old.rows, files |-> active.files]
      /\ active' = [rows |-> active.rows, files |-> NoFile]
      /\ active.files # NoFile
  BY <1>1, <1>2, <1>3 DEF KeptInv
<1>5. KeptRows' = old.rows /\ KeptFiles' = active.files
  BY <1>1, <1>4 DEF KeptRows, KeptFiles
<1>6. KeptInv(X)' /\ (KeptFiles' \ KeptRows') \ X \subseteq (KeptFiles \ KeptRows) \ X
  BY <1>1, <1>2, <1>5 DEF KeptInv
<1>7. Midway(j)' /\ SwapAt(X, j)'
  BY <1>1, <1>3, <1>4 DEF Midway, SwapAt, Swapping
<1>8. /\ active' \in [rows : Sets, files : Sets] /\ old' \in [rows : Sets, files : Sets]
      /\ conn' \in [Jobs -> {"none", "active", "old", "gone"}]
      /\ \A k \in Jobs : conn'[k] = "active" => active'.rows # NoFile
  BY <1>1, <1>3, <1>4 DEF Sets, IInv, DataInv, DataTyped, ConnInv
<1>9. at'[j] \in Swapping \cup Ended
  BY <1>3 DEF Swapping
<1> QED
  BY <1>1, <1>2, <1>5, <1>3, <1>6, <1>7, <1>8, <1>9, Swaps

\* From here on the old database and the old attachments are both aside.
LEMMA MoveNewDbKeeps ==
  ASSUME NEW X, NEW B, IInv(X, B), NEW j \in Jobs, MoveNewDb(j)
  PROVE  DataInv(X, B)'
<1>1. /\ at[j] = "new_db" /\ at[j] \in Swapping /\ After(j) = "new_atts"
      /\ Kind[j] = "restore" /\ KeptInv(X)
      /\ active \in [rows : Sets, files : Sets] /\ old \in [rows : Sets, files : Sets]
      /\ active = [rows |-> active.rows, files |-> active.files]
      /\ old.rows # NoFile /\ old.files # NoFile
      /\ incoming[j].rows \in SUBSET Photos /\ incoming[j].rows # NoFile
  BY SwapStep DEF MoveNewDb, Swapping, SwapAt, Midway
<1>3. /\ at' = [at EXCEPT ![j] = "new_atts"] /\ at'[j] = "new_atts"
      /\ active' = [active EXCEPT !.rows = incoming[j].rows]
      /\ conn' = Follow("active", "gone")
      /\ UNCHANGED <<old, temp, package, incoming, saved, crashes>>
  BY <1>1 DEF MoveNewDb, Proceed, GoTo, packs, budget, IInv, PathInv
<1>4. active' = [rows |-> incoming[j].rows, files |-> active.files]
  BY <1>1, <1>3
<1>5. KeptRows' = KeptRows /\ KeptFiles' = KeptFiles
  BY <1>1, <1>3 DEF KeptRows, KeptFiles
<1>6. KeptInv(X)' /\ (KeptFiles' \ KeptRows') \ X \subseteq (KeptFiles \ KeptRows) \ X
  BY <1>1, <1>5 DEF KeptInv
<1>7. Midway(j)' /\ SwapAt(X, j)'
  BY <1>1, <1>3, <1>4 DEF Midway, SwapAt, Swapping
<1>8. /\ active' \in [rows : Sets, files : Sets] /\ old' \in [rows : Sets, files : Sets]
      /\ conn' \in [Jobs -> {"none", "active", "old", "gone"}]
      /\ \A k \in Jobs : conn'[k] # "active"
  BY <1>1, <1>3, <1>4 DEF Sets, Follow, IInv, DataInv, DataTyped
<1>9. at'[j] \in Swapping \cup Ended
  BY <1>3 DEF Swapping
<1> QED
  BY <1>1, <1>5, <1>3, <1>6, <1>7, <1>8, <1>9, Swaps

\* The fourth rename: the prepared generation is whole in its place.
LEMMA MoveNewAttsKeeps ==
  ASSUME NEW X, NEW B, IInv(X, B), NEW j \in Jobs, MoveNewAtts(j), ~Fail(j)
  PROVE  DataInv(X, B)'
<1>1. /\ at[j] = "new_atts" /\ at[j] \in Swapping /\ After(j) = "check"
      /\ Kind[j] = "restore" /\ KeptInv(X)
      /\ active \in [rows : Sets, files : Sets] /\ old \in [rows : Sets, files : Sets]
      /\ active = [rows |-> active.rows, files |-> active.files]
      /\ old.rows # NoFile /\ old.files # NoFile
      /\ active.rows # NoFile /\ active.rows \ X = incoming[j].rows \ X
      /\ incoming[j].rows \in SUBSET Photos /\ incoming[j].files = incoming[j].rows
      /\ incoming[j].rows # NoFile
  BY SwapStep DEF MoveNewAtts, Swapping, SwapAt, Midway
<1>3. /\ at' = [at EXCEPT ![j] = "check"] /\ at'[j] = "check"
      /\ active' = [active EXCEPT !.files = incoming[j].files]
      /\ UNCHANGED <<old, temp, conn, package, incoming, saved, crashes>>
  BY <1>1 DEF MoveNewAtts, Refuse, Proceed, GoTo, packs, budget, IInv, PathInv
<1>4. active' = [rows |-> active.rows, files |-> incoming[j].files]
  BY <1>1, <1>3
<1>5. KeptRows' = KeptRows /\ KeptFiles' = KeptFiles
  BY <1>1, <1>3 DEF KeptRows, KeptFiles
<1>6. KeptInv(X)' /\ (KeptFiles' \ KeptRows') \ X \subseteq (KeptFiles \ KeptRows) \ X
  BY <1>1, <1>5 DEF KeptInv
<1>7. Midway(j)' /\ SwapAt(X, j)'
  BY <1>1, <1>3, <1>4 DEF Midway, SwapAt, Swapping
<1>8. /\ active' \in [rows : Sets, files : Sets] /\ old' \in [rows : Sets, files : Sets]
      /\ conn' \in [Jobs -> {"none", "active", "old", "gone"}]
      /\ \A k \in Jobs : conn'[k] = "active" => active'.rows # NoFile
  BY <1>1, <1>3, <1>4 DEF Sets, IInv, DataInv, DataTyped, ConnInv
<1>9. at'[j] \in Swapping \cup Ended
  BY <1>3 DEF Swapping
<1> QED
  BY <1>1, <1>5, <1>3, <1>6, <1>7, <1>8, <1>9, Swaps

\* The checks and the reconciler move nothing.
LEMMA ChecksKeep ==
  ASSUME NEW X, NEW B, IInv(X, B), NEW j \in Jobs, (Check(j) /\ ~Fail(j)) \/ Notify(j) \/ Reconciled(j)
  PROVE  DataInv(X, B)'
<1>1. /\ at[j] \in {"check", "notify", "reconciling"} /\ at[j] \in Swapping
      /\ After(j) \in {"notify", "reconciling", "complete"}
      /\ SwapAt(X, j)
  BY SwapStep DEF Check, Notify, Reconciled, Swapping
<1>2. /\ at' = [at EXCEPT ![j] = After(j)] /\ at'[j] = After(j)
      /\ UNCHANGED <<active, old, temp, conn, package, incoming, saved, crashes>>
  BY <1>1 DEF Check, Notify, Reconciled, Refuse, Proceed, GoTo, roots, packs, budget,
       IInv, PathInv
<1>3. /\ Midway(j)' <=> Midway(j)
      /\ ~Pending(j) /\ ~Pending(j)' /\ ~Opened(j)'
  BY <1>1, <1>2 DEF Midway, Pending, Opened, Swapping, Staging
<1>4. SwapAt(X, j)' /\ PackAt(B, j)'
  BY <1>1, <1>2, <1>3 DEF SwapAt, PackAt, Midway, Swapping, IInv, DataInv, PackInv
<1>5. AckAt(X, j)'
  <2>1. Kind[j] = "restore" /\ AckAt(X, j)
    BY <1>1, SwapStep DEF IInv, DataInv, AckInv
  <2> QED
    BY <1>1, <1>2, <2>1 DEF AckAt, Swapping, KeptRows, Attaching
<1>6. PartsKept(j)
  BY <1>1, <1>2 DEF PartsKept, Staged
<1> QED
  BY <1>1, <1>2, <1>3, <1>4, <1>5, <1>6, RootTyped, NearSame, Moves

\* The end of a restore: what it activated is whole and nothing is left aside.
LEMMA CompleteKeeps ==
  ASSUME NEW X, NEW B, IInv(X, B), NEW j \in Jobs, Complete(j)
  PROVE  DataInv(X, B)'
<1>1. /\ at[j] = "complete" /\ at[j] \in Swapping /\ After(j) = "done"
      /\ Kind[j] = "restore"
      /\ active \in [rows : Sets, files : Sets]
      /\ active.rows # NoFile /\ active.rows \ X = incoming[j].rows \ X
      /\ active.files # NoFile /\ active.files \ X = incoming[j].files \ X
      /\ incoming[j].files = incoming[j].rows
  BY SwapStep DEF Complete, Swapping, SwapAt, Midway
<1>3. /\ at' = [at EXCEPT ![j] = "done"] /\ at'[j] = "done"
      /\ old' = Nothing
      /\ conn' = Follow("old", "gone")
      /\ UNCHANGED <<active, temp, package, incoming, saved, crashes>>
  BY <1>1 DEF Complete, Proceed, GoTo, packs, budget, IInv, PathInv
<1>5. KeptRows' = active.rows /\ KeptFiles' = active.files
  BY <1>1, <1>3 DEF KeptRows, KeptFiles, Nothing
<1>6. KeptInv(X)' /\ (KeptFiles' \ KeptRows') \ X \subseteq (KeptFiles \ KeptRows) \ X
  BY <1>1, <1>5 DEF KeptInv
<1>7. SwapAt(X, j)'
  BY <1>3 DEF Midway, SwapAt, Swapping
<1>8. /\ active' \in [rows : Sets, files : Sets] /\ old' \in [rows : Sets, files : Sets]
      /\ conn' \in [Jobs -> {"none", "active", "old", "gone"}]
      /\ \A k \in Jobs : conn'[k] # "old"
      /\ active'.rows # NoFile
  BY <1>1, <1>3 DEF Sets, Nothing, Follow, IInv, DataInv, DataTyped
<1>9. at'[j] \in Ended
  BY <1>3 DEF Ended
<1> QED
  BY <1>1, <1>3, <1>6, <1>7, <1>8, <1>9, Swaps

\* A swap that throws: what comes back is what a rollback would leave.
LEMMA RollbackKeeps ==
  ASSUME NEW X, NEW B, IInv(X, B), NEW j \in Jobs, Midway(j), Fail(j), crashes' = crashes
  PROVE  DataInv(X, B)'
<1>1. /\ at[j] \in Swapping /\ at[j] # "old_db" /\ at[j] \notin Staging
      /\ Kind[j] = "restore" /\ KeptInv(X)
      /\ active \in [rows : Sets, files : Sets] /\ old \in [rows : Sets, files : Sets]
      /\ old.rows # NoFile
  <2>1. at[j] \in Swapping /\ at[j] # "old_db" /\ at[j] \notin Staging
    BY DEF Midway, Swapping, Staging
  <2> QED
    BY <2>1, SwapStep DEF SwapAt
<1>2. ~OwnsFile(j)
  BY <1>1 DEF OwnsFile, Attaching
<1>3. /\ at' = [at EXCEPT ![j] = "failed"] /\ at'[j] = "failed"
      /\ PutOldBack
      /\ UNCHANGED <<temp, package, incoming, saved>>
  BY <1>1, <1>2 DEF Fail, packs, IInv, PathInv
<1>4. active' = [rows |-> KeptRows, files |-> KeptFiles] /\ old' = Nothing
  BY <1>3 DEF PutOldBack, KeptRows, KeptFiles
<1>5. KeptRows' = KeptRows /\ KeptFiles' = KeptFiles
  BY <1>4 DEF KeptRows, KeptFiles, Nothing
<1>6. KeptInv(X)' /\ (KeptFiles' \ KeptRows') \ X \subseteq (KeptFiles \ KeptRows) \ X
  BY <1>1, <1>5 DEF KeptInv
<1>7. SwapAt(X, j)'
  BY <1>3 DEF Midway, SwapAt, Swapping
<1>8. KeptRows \in Sets /\ KeptFiles \in Sets
  BY <1>1 DEF KeptRows, KeptFiles
<1>9. /\ active' \in [rows : Sets, files : Sets] /\ old' \in [rows : Sets, files : Sets]
      /\ active'.rows # NoFile
  BY <1>1, <1>4, <1>8 DEF Sets, Nothing, KeptInv
<1>10. /\ conn' \in [Jobs -> {"none", "active", "old", "gone"}]
       /\ \A k \in Jobs : conn'[k] # "old"
  BY <1>1, <1>3 DEF PutOldBack, IInv, DataInv, DataTyped
<1>11. at'[j] \in Swapping \cup Ended
  BY <1>3 DEF Ended
<1> QED
  BY <1>1, <1>5, <1>3, <1>4, <1>6, <1>7, <1>9, <1>10, <1>11, Swaps

-----------------------------------------------------------------------------
(* Every step keeps DataInv. *)

\* A call that is asked for has changed nothing yet.
LEMMA AskKeeps ==
  ASSUME NEW X, NEW B, IInv(X, B), NEW j \in Jobs, Ask(j)
  PROVE  DataInv(X, B)'
<1>1. /\ at[j] = "new" /\ at'[j] = IF Kind[j] = "agenda" THEN "look" ELSE "queued"
      /\ at' = [at EXCEPT ![j] = Path[Kind[j]][1]]
      /\ UNCHANGED <<active, old, temp, conn, package, incoming, saved, crashes>>
  BY Asks DEF Ask, GoTo, roots, packs, budget, IInv
<1>2. /\ ~Pending(j) /\ ~Pending(j)' /\ ~Midway(j) /\ ~Midway(j)' /\ ~Opened(j)'
      /\ j \notin saved /\ PartsKept(j)
  BY <1>1 DEF Pending, Midway, Opened, Staging, Swapping, Ended, Staged, PartsKept,
              IInv, DataInv, PackInv, PackAt
<1>3. SwapAt(X, j)' /\ PackAt(B, j)'
  BY <1>1, <1>2 DEF SwapAt, PackAt, Midway, Swapping
<1>4. AckAt(X, j)'
  BY <1>1 DEF AckAt, Swapping
<1> QED
  BY <1>1, <1>2, <1>3, <1>4, RootTyped, NearSame, Moves

\* Where a call goes whose turn it is.
LEMMA BeginsAt ==
  ASSUME PathInv, NEW j \in Jobs, at[j] = "queued"
  PROVE  /\ After(j) \in {"open", "look", "rows", "prepare"}
         /\ Kind[j] = "agenda" => After(j) = "open"
         /\ Kind[j] = "evidence" => After(j) = "look"
         /\ Kind[j] = "inventory" => After(j) = "open"
<1>1. Kind[j] \in {"agenda", "evidence", "inventory", "backup", "restore"}
  BY KindsAre
<1>2. CASE Kind[j] = "agenda"
  BY <1>2, AgendaPath
<1>3. CASE Kind[j] = "evidence"
  BY <1>3, EvidencePath
<1>4. CASE Kind[j] = "inventory"
  BY <1>4, InventoryPath
<1>5. CASE Kind[j] = "backup"
  BY <1>5, BackupPath
<1>6. CASE Kind[j] = "restore"
  BY <1>6, RestorePath
<1> QED
  BY <1>1, <1>2, <1>3, <1>4, <1>5, <1>6

\* Nor has one whose turn it is.
LEMMA BeginKeeps ==
  ASSUME NEW X, NEW B, IInv(X, B), NEW j \in Jobs, Begin(j)
  PROVE  DataInv(X, B)'
<1> DEFINE s == After(j)
<1>1. /\ at[j] = "queued" /\ at' = [at EXCEPT ![j] = s] /\ at'[j] = s
      /\ s \in {"open", "look", "rows", "prepare"}
      /\ UNCHANGED <<active, old, temp, conn, package, incoming, saved, crashes>>
  BY BeginsAt DEF Begin, Proceed, GoTo, roots, packs, budget, IInv, PathInv
<1>2. j \notin saved /\ ~Midway(j) /\ PartsKept(j)
  BY <1>1 DEF Midway, Swapping, Ended, Staged, PartsKept, IInv, DataInv, PackInv, PackAt
<1>3. /\ Pending(j)' <=> Pending(j)
      /\ ~Opened(j)'
  BY <1>1, BeginsAt, KindsAre DEF IInv, Pending, Opened, Staging
<1>4. ~Midway(j)' /\ SwapAt(X, j)' /\ PackAt(B, j)'
  BY <1>1, <1>2 DEF SwapAt, PackAt, Midway, Swapping
<1>5. AckAt(X, j)'
  BY <1>1 DEF AckAt, Swapping
<1> QED
  BY <1>1, <1>2, <1>3, <1>4, <1>5, RootTyped, NearSame, Moves

\* A death outside the swap leaves rows and files; no call goes on.
LEMMA CrashKeeps ==
  ASSUME NEW X, NEW B, IInv(X, B), Crash
  PROVE  DataInv(X, B)'
<1>1. /\ \A j \in Jobs : at[j] \notin Swapping
      /\ at' = [j \in Jobs |-> IF at[j] \in Ended \cup {"new"} THEN at[j] ELSE "killed"]
      /\ conn' = [j \in Jobs |-> "none"]
      /\ crashes' = crashes + 1
      /\ UNCHANGED <<active, old, temp, package, incoming, saved>>
  BY DEF Crash, roots, packs
<1>2. \A j \in Jobs : /\ at'[j] \in Ended \cup {"new"}
                      /\ at[j] \in Ended => at'[j] = at[j]
                      /\ at'[j] = "done" => at[j] = "done"
                      /\ conn'[j] = "none"
  BY <1>1 DEF Ended
<1>3. \A j \in Jobs : ~Midway(j) /\ ~Midway(j)' /\ ~Pending(j)' /\ ~Opened(j)'
  BY <1>1, <1>2 DEF Midway, Pending, Opened, Staging, Swapping, Ended
<1>4. Calm /\ old' = Nothing
  BY <1>1, <1>3 DEF Calm, IInv, DataInv, SwapInv
<1>5. DataTyped' /\ KeptInv(X)' /\ OwnInv(X)' /\ ConnInv(X)'
  BY <1>1, <1>2, <1>3 DEF IInv, DataInv, DataTyped, KeptInv, KeptRows, KeptFiles,
                        OwnInv, ConnInv
<1>6. SwapInv(X)'
  BY <1>3, <1>4 DEF SwapInv, SwapAt, Midway, Swapping
<1>7. PackInv(B)'
  <2>1. ASSUME NEW j \in Jobs PROVE PackAt(B, j)'
    <3>1. PackAt(B, j) /\ package' = package /\ saved' = saved
      BY <1>1 DEF IInv, DataInv, PackInv
    <3>2. at'[j] \notin {"vacuum", "files", "save"} /\ (j \in saved => at'[j] \in Ended)
      BY <1>1, <1>2, <3>1 DEF PackAt, Ended
    <3> QED
      BY <3>1, <3>2 DEF PackAt
  <2> QED
    BY <1>1, <2>1 DEF IInv, DataInv, PackInv, Restorable
<1>8. LeftInv(X)'
  BY <1>1 DEF LeftInv, IInv, DataInv, DataTyped
<1>9. AckInv(X)'
  BY <1>1, <1>2 DEF AckInv, AckAt, KeptRows, Swapping, Ended, IInv, DataInv
<1> QED
  BY <1>5, <1>6, <1>7, <1>8, <1>9 DEF DataInv

\* Nothing moves, nothing changes.
LEMMA NothingMoves ==
  ASSUME NEW X, NEW B, IInv(X, B), UNCHANGED vars
  PROVE  DataInv(X, B)'
<1>1. UNCHANGED <<active, old, temp, conn, at, package, incoming, saved, crashes>>
  BY DEF vars, roots, packs, budget
<1>2. \A k \in Jobs : /\ Pending(k)' <=> Pending(k)
                      /\ Midway(k)' <=> Midway(k)
                      /\ Opened(k)' <=> Opened(k)
                      /\ Staged(k)' <=> Staged(k)
  BY <1>1 DEF Pending, Midway, Opened, Staged
<1>3. /\ KeptRows' = KeptRows /\ KeptFiles' = KeptFiles
      /\ Calm' <=> Calm
  BY <1>1, <1>2 DEF KeptRows, KeptFiles, Calm
<1>4. DataTyped' /\ KeptInv(X)' /\ OwnInv(X)' /\ LeftInv(X)'
  BY <1>1, <1>2, <1>3 DEF IInv, DataInv, DataTyped, KeptInv, OwnInv, LeftInv
<1>5. SwapInv(X)' /\ ConnInv(X)'
  BY <1>1, <1>2, <1>3 DEF IInv, DataInv, SwapInv, SwapAt, ConnInv
<1>6. PackInv(B)'
  BY <1>1 DEF IInv, DataInv, PackInv, PackAt, Restorable
<1>7. AckInv(X)'
  BY <1>1, <1>3 DEF AckInv, AckAt, IInv, DataInv
<1> QED
  BY <1>4, <1>5, <1>6, <1>7 DEF DataInv

\* Every step keeps DataInv: one lemma per action.
LEMMA DataStep ==
  ASSUME CloseReturns, NEW X, NEW B, IInv(X, B), [Next]_vars
  PROVE  DataInv(X, B)'
<1>1. ASSUME NEW j \in Jobs, at[j] \in Steps \ {"queued", "close"}, Fail(j),
             crashes' = crashes
      PROVE  DataInv(X, B)'
  BY <1>1, FailKeeps, RollbackKeeps
<1>2. ASSUME NEW j \in Jobs, Throw(j) PROVE DataInv(X, B)'
  <2>1. at[j] \in Steps \ {"queued", "close"} /\ Fail(j) /\ crashes' = crashes
    BY <1>2, Inputs DEF Throw, IInv, PathInv, CloseReturns
  <2> QED
    BY <1>1, <2>1
<1>3. ASSUME NEW j \in Jobs, AddPhoto(j) PROVE DataInv(X, B)'
  <2>1. CASE Look(j) \/ Stage(j) \/ Close(j) \/ Cleanup(j)
    BY <2>1, LookKeeps, StageKeeps, CloseKeeps, CleanupKeeps
  <2>2. CASE Verify(j) \/ Finalize(j) \/ OpenDb(j) \/ Commit(j)
    <3>1. at[j] \in Steps \ {"queued", "close"}
      BY <2>2 DEF Verify, Finalize, OpenDb, Commit, Steps, Staging
    <3>2. crashes' = crashes
      BY <2>2 DEF Verify, Finalize, OpenDb, Commit, Refuse, budget
    <3>3. CASE Fail(j)
      BY <1>1, <3>1, <3>2, <3>3
    <3>4. CASE ~Fail(j)
      BY <2>2, <3>4, VerifyKeeps, FinalizeKeeps, OpenDbKeeps, CommitKeeps
    <3> QED
      BY <3>3, <3>4
  <2> QED
    BY <1>3, <2>1, <2>2 DEF AddPhoto
<1>4. ASSUME NEW j \in Jobs, Backup(j) \/ Restore(j) PROVE DataInv(X, B)'
  <2>1. at[j] \in Steps \ {"queued", "close"} /\ crashes' = crashes
    BY <1>4 DEF Backup, ReadRows, Vacuum, ReadFiles, Save, Restore, Prepare,
         MoveOldDb, MoveOldAtts, MoveNewDb, MoveNewAtts, Check, Notify, Reconciled,
         Complete, Refuse, Steps, budget
  <2>2. CASE Fail(j)
    BY <1>1, <2>1, <2>2
  <2>3. CASE ~Fail(j)
    BY <1>4, <2>3, ReadRowsKeeps, VacuumKeeps, ReadFilesKeeps, SaveKeeps,
       PrepareKeeps, MoveOldDbKeeps, MoveOldAttsKeeps, MoveNewDbKeeps,
       MoveNewAttsKeeps, ChecksKeep, CompleteKeeps DEF Backup, Restore
  <2> QED
    BY <2>2, <2>3
<1> QED
  BY <1>2, <1>3, <1>4, AskKeeps, BeginKeeps, CrashKeeps, NothingMoves DEF Next, Step

-----------------------------------------------------------------------------
(* Two calls under one id. *)

\* Outside Ask, a call that moves was under way; the others stay where they are.
LEMMA WhoMoves ==
  ASSUME PathInv, NEW j \in Jobs, Step(j) \/ Throw(j)
  PROVE  UnderWay(j) /\ at' = [at EXCEPT ![j] = at'[j]]
<1>1. at[j] \in Steps \cup {"cleanup"}
  BY Inputs
     DEF Step, Throw, Begin, AddPhoto, Look, Stage, Verify, Finalize, OpenDb, Commit,
         Close, Cleanup, Backup, ReadRows, Vacuum, ReadFiles, Save, Restore, Prepare,
         MoveOldDb, MoveOldAtts, MoveNewDb, MoveNewAtts, Check, Notify, Reconciled,
         Complete, Steps, Staging
<1>2. UnderWay(j)
  BY <1>1 DEF UnderWay, Steps, Staging, Ended
<1> SUFFICES at' = [at EXCEPT ![j] = at'[j]]
  BY <1>2
<1>3. ASSUME NEW s, GoTo(j, s) PROVE at' = [at EXCEPT ![j] = at'[j]]
  BY <1>3 DEF GoTo, PathInv
<1>4. ASSUME Fail(j) PROVE at' = [at EXCEPT ![j] = at'[j]]
  BY <1>4 DEF Fail, PathInv
<1>5. CASE Begin(j) \/ AddPhoto(j)
  BY <1>3, <1>4, <1>5 DEF Begin, AddPhoto, Look, Stage, Verify, Finalize, OpenDb,
       Commit, Close, Cleanup, Proceed, Refuse
<1>6. CASE Backup(j) \/ Prepare(j) \/ MoveOldDb(j) \/ MoveOldAtts(j) \/ MoveNewDb(j)
           \/ MoveNewAtts(j) \/ Check(j) \/ Complete(j)
  BY <1>3, <1>4, <1>6 DEF Backup, ReadRows, Vacuum, ReadFiles, Save, Prepare,
       MoveOldDb, MoveOldAtts, MoveNewDb, MoveNewAtts, Check, Complete, Proceed, Refuse
<1>7. CASE Notify(j) \/ Reconciled(j)
  BY <1>7 DEF Notify, Reconciled, PathInv
<1>8. CASE Throw(j)
  BY <1>4, <1>8 DEF Throw
<1> QED
  BY <1>5, <1>6, <1>7, <1>8 DEF Step, Restore

\* A call is under way only once it was asked for.
LEMMA TwoStep ==
  ASSUME PathInv, TwoInv, [Next]_vars
  PROVE  TwoInv'
<1>1. ASSUME NEW j \in Jobs, Ask(j) PROVE TwoInv'
  <2>1. at' = [at EXCEPT ![j] = Path[Kind[j]][1]] /\ at[j] = "new"
    BY <1>1 DEF Ask, GoTo
  <2>2. \A k \in Jobs \ {j} : UnderWay(k)' <=> UnderWay(k)
    BY <2>1 DEF UnderWay, PathInv
  <2> SUFFICES ASSUME NEW a \in Jobs, NEW b \in Jobs, NEW c \in Jobs,
                      Kind[a] = "agenda", Kind[b] = "agenda", Kind[c] = "agenda",
                      UnderWay(a)', UnderWay(b)', UnderWay(c)',
                      Photo[a] = Photo[b], Photo[b] = Photo[c],
                      a # b, b # c, a # c
               PROVE  FALSE
    BY DEF TwoInv
  <2>3. CASE j \notin {a, b, c}
    BY <2>2, <2>3 DEF TwoInv
  <2>4. ASSUME NEW m \in Jobs, NEW n \in Jobs, m # n, m # j, n # j,
               Kind[j] = "agenda", Kind[m] = "agenda", Kind[n] = "agenda",
               UnderWay(m), UnderWay(n), Photo[m] = Photo[j], Photo[n] = Photo[j]
        PROVE  FALSE
    BY <1>1, <2>4 DEF Ask, Twins
  <2> QED
    BY <2>2, <2>3, <2>4
<1>2. ASSUME NEW j \in Jobs, Step(j) \/ Throw(j) PROVE TwoInv'
  <2>1. UnderWay(j) /\ at' = [at EXCEPT ![j] = at'[j]]
    BY <1>2, WhoMoves
  <2>2. \A k \in Jobs : UnderWay(k)' => UnderWay(k)
    BY <2>1 DEF UnderWay, PathInv
  <2> QED
    BY <2>2 DEF TwoInv
<1>3. CASE Crash
  <2>1. \A k \in Jobs : ~UnderWay(k)'
    BY <1>3 DEF Crash, UnderWay, Ended
  <2> QED
    BY <2>1 DEF TwoInv
<1>4. CASE UNCHANGED vars
  BY <1>4 DEF vars, TwoInv, UnderWay
<1> QED
  BY <1>1, <1>2, <1>3, <1>4 DEF Next

\* A step of j that writes no .part and gives no id a file, but in a swap.
LEMMA StageFrame ==
  ASSUME NEW X, NEW B, IInv(X, B), NEW j \in Jobs, NEW s,
         s \notin {"stage", "finalize"}, at' = [at EXCEPT ![j] = s],
         temp' \subseteq temp,
         \/ \A p : p \in active'.files => p \in active.files
         \/ Kind[j] = "restore" /\ Holding(j)
  PROVE  StageInv(X)'
<1>1. at'[j] = s /\ \A k \in Jobs \ {j} : at'[k] = at[k]
  BY DEF IInv, PathInv
<1> SUFFICES ASSUME NEW k \in Jobs, at'[k] = "finalize", Photo[k] \notin X
             PROVE  /\ Photo[k] \in temp' => Photo[k] \notin active'.files
                    /\ \A m \in Jobs : at'[m] = "stage" /\ Photo[m] = Photo[k] =>
                         Photo[k] \notin active'.files
  BY DEF StageInv
<1>2. k # j /\ at[k] = "finalize"
  BY <1>1
<1>3. ~(Kind[j] = "restore" /\ Holding(j))
  BY <1>2, RestoreAlone DEF IInv, Outside, Ended
<1>4. /\ Photo[k] \in temp => Photo[k] \notin active.files
      /\ \A m \in Jobs : at[m] = "stage" /\ Photo[m] = Photo[k] =>
           Photo[k] \notin active.files
  BY <1>2 DEF IInv, StageInv
<1>5. \A m \in Jobs : at'[m] = "stage" => at[m] = "stage"
  BY <1>1
<1> QED
  BY <1>3, <1>4, <1>5

\* A call that looks and goes on finds its name free.
LEMMA LookStages ==
  ASSUME NEW X, NEW B, IInv(X, B), NEW j \in Jobs, Look(j)
  PROVE  StageInv(X)'
<1>1. /\ at[j] = "look" /\ temp' = temp
      /\ active'.files = IF active.files = NoFile THEN {} ELSE active.files
  BY RootTyped DEF Look
<1>2. PICK s \in {"stage", "failed"} :
        /\ at' = [at EXCEPT ![j] = s]
        /\ s = "stage" => ~Has(active.files, Photo[j])
  BY Adds DEF Look, Proceed, GoTo
<1>3. CASE s = "failed"
  BY <1>1, <1>2, <1>3, StageFrame
<1>4. CASE s = "stage"
  <2>1. at'[j] = "stage" /\ \A k \in Jobs \ {j} : at'[k] = at[k]
    BY <1>2, <1>4 DEF IInv, PathInv
  <2>2. Photo[j] \notin active'.files
    BY <1>1, <1>2, <1>4 DEF Has
  <2>3. \A p : p \in active'.files => p \in active.files
    BY <1>1
  <2> SUFFICES ASSUME NEW k \in Jobs, at'[k] = "finalize", Photo[k] \notin X
               PROVE  /\ Photo[k] \in temp' => Photo[k] \notin active'.files
                      /\ \A m \in Jobs : at'[m] = "stage" /\ Photo[m] = Photo[k] =>
                           Photo[k] \notin active'.files
    BY DEF StageInv
  <2>4. at[k] = "finalize"
    BY <2>1
  <2>5. /\ Photo[k] \in temp => Photo[k] \notin active.files
        /\ \A m \in Jobs : at[m] = "stage" /\ Photo[m] = Photo[k] =>
             Photo[k] \notin active.files
    BY <2>4 DEF IInv, StageInv
  <2> QED
    BY <1>1, <2>1, <2>2, <2>3, <2>5
<1> QED
  BY <1>3, <1>4

\* A .part is written where another call is about to rename one: its name is free.
LEMMA StageStages ==
  ASSUME NEW X, NEW B, IInv(X, B), NEW j \in Jobs, Stage(j)
  PROVE  StageInv(X)'
<1>1. /\ at[j] = "stage" /\ at' = [at EXCEPT ![j] = "verify"]
      /\ temp' = temp \cup {Photo[j]} /\ active' = active
  BY Adds DEF Stage, Staging, Proceed, GoTo, roots
<1>2. at'[j] = "verify" /\ \A k \in Jobs \ {j} : at'[k] = at[k]
  BY <1>1 DEF IInv, PathInv
<1> SUFFICES ASSUME NEW k \in Jobs, at'[k] = "finalize", Photo[k] \notin X
             PROVE  /\ Photo[k] \in temp' => Photo[k] \notin active'.files
                    /\ \A m \in Jobs : at'[m] = "stage" /\ Photo[m] = Photo[k] =>
                         Photo[k] \notin active'.files
  BY DEF StageInv
<1>3. /\ at[k] = "finalize"
      /\ Photo[k] \in temp => Photo[k] \notin active.files
      /\ \A m \in Jobs : at[m] = "stage" /\ Photo[m] = Photo[k] =>
           Photo[k] \notin active.files
  BY <1>2 DEF IInv, StageInv
<1> QED
  BY <1>1, <1>2, <1>3

\* The second look finds the name free once more.
LEMMA VerifyStages ==
  ASSUME NEW X, NEW B, IInv(X, B), NEW j \in Jobs, Verify(j), ~Fail(j)
  PROVE  StageInv(X)'
<1>1. /\ at[j] = "verify" /\ at' = [at EXCEPT ![j] = "finalize"]
      /\ UNCHANGED <<active, temp>> /\ ~Has(active.files, Photo[j])
  BY Adds DEF Verify, Refuse, Staging, Proceed, GoTo, roots
<1>2. at'[j] = "finalize" /\ \A k \in Jobs \ {j} : at'[k] = at[k]
  BY <1>1 DEF IInv, PathInv
<1>3. Photo[j] \notin X => Photo[j] \notin active.files
  BY <1>1, Adds, CalmRoot DEF IInv, Staging, Has
<1> SUFFICES ASSUME NEW k \in Jobs, at'[k] = "finalize", Photo[k] \notin X
             PROVE  /\ Photo[k] \in temp' => Photo[k] \notin active'.files
                    /\ \A m \in Jobs : at'[m] = "stage" /\ Photo[m] = Photo[k] =>
                         Photo[k] \notin active'.files
  BY DEF StageInv
<1>4. CASE k = j
  BY <1>1, <1>3, <1>4
<1>5. CASE k # j
  BY <1>1, <1>2, <1>5 DEF IInv, StageInv
<1> QED
  BY <1>4, <1>5

\* A rename takes the .part away, and no third call of this id is under way.
LEMMA FinalizeStages ==
  ASSUME NEW X, NEW B, IInv(X, B), NEW j \in Jobs, Finalize(j), ~Fail(j)
  PROVE  StageInv(X)'
<1>1. /\ at[j] = "finalize" /\ at' = [at EXCEPT ![j] = After(j)]
      /\ temp' = temp \ {Photo[j]}
      /\ active'.files = active.files \cup {Photo[j]}
  BY RootTyped DEF Finalize, Refuse, Proceed, GoTo
<1>2. After(j) \in {"queued", "open", "commit"} /\ Kind[j] \in Attaching
  BY <1>1, Adds DEF Staging, Attaching
<1>3. at'[j] = After(j) /\ \A k \in Jobs \ {j} : at'[k] = at[k]
  BY <1>1 DEF IInv, PathInv
<1> SUFFICES ASSUME NEW k \in Jobs, at'[k] = "finalize", Photo[k] \notin X
             PROVE  /\ Photo[k] \in temp' => Photo[k] \notin active'.files
                    /\ \A m \in Jobs : at'[m] = "stage" /\ Photo[m] = Photo[k] =>
                         Photo[k] \notin active'.files
  BY DEF StageInv
<1>4. k # j /\ at[k] = "finalize"
  BY <1>2, <1>3
<1>5. /\ Photo[k] \in temp => Photo[k] \notin active.files
      /\ \A m \in Jobs : at[m] = "stage" /\ Photo[m] = Photo[k] =>
           Photo[k] \notin active.files
  BY <1>4 DEF IInv, StageInv
<1>6. \A m \in Jobs : at'[m] = "stage" => m # j /\ at[m] = "stage"
  BY <1>2, <1>3
<1>7. CASE Photo[k] # Photo[j]
  BY <1>1, <1>5, <1>6, <1>7
<1>8. CASE Photo[k] = Photo[j]
  <2>1. Photo[k] \notin temp'
    BY <1>1, <1>8
  <2>2. Kind[k] \in {"agenda", "evidence", "inventory"}
    BY <1>4, KindAt DEF IInv, Staging
  <2>3. Kind[k] = Kind[j]
    BY <1>2, <1>8, <2>2, Inputs DEF Attaching
  <2>4. Kind[k] = "agenda"
    <3> SUFFICES ASSUME Kind[k] # "agenda" PROVE FALSE
      OBVIOUS
    <3>1. Holding(j) /\ Holding(k) /\ Lane(j) = Lane(k)
      BY <1>1, <1>4, <2>3 DEF Holding, Lane, Outside, Ended
    <3> QED
      BY <1>4, <3>1, OneRuns DEF IInv
  <2>5. ASSUME NEW m \in Jobs, at'[m] = "stage", Photo[m] = Photo[k] PROVE FALSE
    <3>1. m # j /\ m # k /\ at[m] = "stage"
      BY <1>4, <1>6, <2>5
    <3>2. Kind[m] \in {"agenda", "evidence", "inventory"}
      BY <3>1, KindAt DEF IInv, Staging
    <3>3. Kind[m] = "agenda"
      BY <2>2, <2>4, <2>5, <3>2, Inputs DEF Attaching
    <3>4. UnderWay(j) /\ UnderWay(k) /\ UnderWay(m)
      BY <1>1, <1>4, <3>1 DEF UnderWay, Ended
    <3> QED
      BY <1>4, <1>8, <2>3, <2>4, <2>5, <3>1, <3>3, <3>4 DEF IInv, TwoInv
  <2> QED
    BY <2>1, <2>5
<1> QED
  BY <1>7, <1>8

\* A step that throws gives no id a file, but in a rollback.
LEMMA FailStages ==
  ASSUME NEW X, NEW B, IInv(X, B), NEW j \in Jobs, at[j] \in Steps \ {"queued"}, Fail(j)
  PROVE  StageInv(X)'
<1>1. PICK s \in {"cleanup", "failed"} : at' = [at EXCEPT ![j] = s]
  BY DEF Fail
<1>2. temp' \subseteq temp
  BY DEF Fail
<1>3. CASE Kind[j] = "restore" /\ at[j] \in Swapping
  BY <1>1, <1>2, <1>3, KindAt, StageFrame DEF IInv
<1>4. CASE ~(Kind[j] = "restore" /\ at[j] \in Swapping)
  BY <1>1, <1>2, <1>4, StageFrame DEF Fail, roots
<1> QED
  BY <1>3, <1>4

\* Every step keeps StageInv.
LEMMA StageStep ==
  ASSUME NEW X, NEW B, IInv(X, B), [Next]_vars
  PROVE  StageInv(X)'
<1>1. ASSUME NEW j \in Jobs, Ask(j) \/ Begin(j) PROVE StageInv(X)'
  <2>1. UNCHANGED <<active, temp>>
    BY <1>1 DEF Ask, Begin, roots
  <2>2. PICK s \in {"look", "queued", "open", "rows", "prepare"} :
          at' = [at EXCEPT ![j] = s]
    <3>1. CASE Ask(j)
      BY <3>1, Asks DEF IInv, PathInv, Ask, GoTo
    <3>2. CASE Begin(j)
      BY <3>2, BeginsAt DEF IInv, Begin, Proceed, GoTo
    <3> QED
      BY <1>1, <3>1, <3>2
  <2> QED
    BY <2>1, <2>2, StageFrame
<1>2. ASSUME NEW j \in Jobs, Fail(j), Throw(j) \/ Step(j) PROVE StageInv(X)'
  <2>1. CASE at[j] \in Steps \ {"queued"}
    BY <1>2, <2>1, FailStages
  <2>2. CASE at[j] \notin Steps \ {"queued"}
    <3>1. PICK s \in {"cleanup", "failed"} : at' = [at EXCEPT ![j] = s]
      BY <1>2 DEF Fail
    <3>2. /\ temp' \subseteq temp
          /\ \A p : p \in active'.files => p \in active.files
      BY <1>2, <2>2 DEF Fail, Swapping, Steps, roots
    <3> QED
      BY <3>1, <3>2, StageFrame
  <2> QED
    BY <2>1, <2>2
<1>3. ASSUME NEW j \in Jobs, AddPhoto(j), ~Fail(j) PROVE StageInv(X)'
  <2>1. CASE Look(j) \/ Stage(j) \/ Verify(j) \/ Finalize(j)
    BY <1>3, <2>1, LookStages, StageStages, VerifyStages, FinalizeStages
  <2>2. CASE OpenDb(j) \/ Commit(j) \/ Close(j) \/ Cleanup(j)
    <3>1. temp' = temp
      BY <1>3, <2>2 DEF OpenDb, Commit, Close, Cleanup, Refuse, roots
    <3>2. \A p : p \in active'.files => p \in active.files
      BY <1>3, <2>2, RootTyped DEF OpenDb, Commit, Close, Cleanup, Refuse, roots
    <3>3. PICK s \in {"look", "commit", "close", "done", "failed"} :
            at' = [at EXCEPT ![j] = s]
      BY <1>3, <2>2, Adds DEF OpenDb, Commit, Close, Cleanup, Refuse, Proceed, GoTo
    <3> QED
      BY <3>1, <3>2, <3>3, StageFrame
  <2> QED
    BY <1>3, <2>1, <2>2 DEF AddPhoto
<1>4. ASSUME NEW j \in Jobs, Backup(j) \/ Prepare(j), ~Fail(j) PROVE StageInv(X)'
  <2>1. UNCHANGED <<active, temp>> /\ at' = [at EXCEPT ![j] = After(j)]
    BY <1>4 DEF Backup, ReadRows, Vacuum, ReadFiles, Save, Prepare, Refuse, Proceed,
         GoTo, roots
  <2>2. After(j) \notin {"stage", "finalize"}
    BY <1>4, PackingStep DEF Backup, ReadRows, Vacuum, ReadFiles, Save, Prepare
  <2> QED
    BY <2>1, <2>2, StageFrame
<1>5. ASSUME NEW j \in Jobs, Restore(j), ~Prepare(j), ~Fail(j) PROVE StageInv(X)'
  <2>1. at[j] \in Swapping /\ temp' = temp /\ at' = [at EXCEPT ![j] = After(j)]
    BY <1>5 DEF Restore, MoveOldDb, MoveOldAtts, MoveNewDb, MoveNewAtts, Check,
         Notify, Reconciled, Complete, Refuse, Proceed, GoTo, roots, Swapping
  <2>2. After(j) \notin {"stage", "finalize"} /\ Kind[j] = "restore" /\ Holding(j)
    BY <2>1, SwapStep, KindAt DEF Swapping, IInv
  <2> QED
    BY <2>1, <2>2, StageFrame
<1>6. CASE Crash
  <2>1. \A k \in Jobs : at'[k] # "finalize"
    BY <1>6 DEF Crash, Ended
  <2> QED
    BY <2>1 DEF StageInv
<1>7. CASE UNCHANGED vars
  BY <1>7 DEF vars, roots, StageInv, IInv
<1>8. ASSUME NEW j \in Jobs, Throw(j) PROVE Fail(j)
  BY <1>8 DEF Throw
<1> QED
  BY <1>1, <1>2, <1>3, <1>4, <1>5, <1>6, <1>7, <1>8 DEF Next, Step, Restore

-----------------------------------------------------------------------------
(* The theorems. *)

\* The photos of assets that were being added while a backup ran, by backup.
Besides == [b \in Jobs |-> AddedBeside(b)]

\* The invariant of the proofs, about the calls that have met so far.
Inv == \E X, B : X = Overtaken /\ B = Besides /\ IInv(X, B)

\* What holds but for some photos holds but for more of them.
LEMMA MoreMet ==
  ASSUME NEW X, NEW Y, X \subseteq Y, NEW B, NEW C, \A b \in Jobs : B[b] \subseteq C[b],
         DataInv(X, B)', StageInv(X)'
  PROVE  DataInv(Y, C)' /\ StageInv(Y)'
<1>1. DataTyped' /\ KeptInv(X)' /\ SwapInv(X)' /\ OwnInv(X)' /\ ConnInv(X)'
      /\ PackInv(B)' /\ LeftInv(X)' /\ AckInv(X)'
  BY DEF DataInv
<1>2. KeptInv(Y)'
  BY <1>1 DEF KeptInv
<1>3. SwapInv(Y)'
  <2>1. ASSUME NEW j \in Jobs PROVE SwapAt(Y, j)'
    <3>1. SwapAt(X, j)'
      BY <1>1 DEF SwapInv
    <3> QED
      BY <3>1 DEF SwapAt
  <2> QED
    BY <1>1, <2>1 DEF SwapInv
<1>4. OwnInv(Y)'
  BY <1>1 DEF OwnInv
<1>5. ConnInv(Y)'
  BY <1>1 DEF ConnInv
<1>6. PackInv(C)'
  <2>1. ASSUME NEW j \in Jobs PROVE PackAt(C, j)'
    <3>1. PackAt(B, j)'
      BY <1>1 DEF PackInv
    <3> QED
      BY <3>1 DEF PackAt, Lists
  <2> QED
    BY <1>1, <2>1 DEF PackInv
<1>7. LeftInv(Y)'
  BY <1>1 DEF LeftInv
<1>8. AckInv(Y)'
  <2>1. ASSUME NEW j \in Jobs PROVE AckAt(Y, j)'
    <3>1. AckAt(X, j)'
      BY <1>1 DEF AckInv
    <3> QED
      BY <3>1 DEF AckAt
  <2> QED
    BY <2>1 DEF AckInv
<1>9. StageInv(Y)'
  BY DEF StageInv
<1> QED
  BY <1>1, <1>2, <1>3, <1>4, <1>5, <1>6, <1>7, <1>8, <1>9 DEF DataInv

\* Each step notes who meets whom.
LEMMA Meetings ==
  ASSUME Next
  PROVE  Meeting
<1>1. ASSUME NEW j \in Jobs, NEW s, GoTo(j, s) \/ Proceed(j) \/ Fail(j) \/ Refuse(j)
      PROVE  Meeting
  BY <1>1 DEF GoTo, Proceed, Fail, Refuse
<1>2. ASSUME NEW j \in Jobs, Ask(j) \/ Throw(j) \/ Begin(j) \/ AddPhoto(j)
      PROVE  Meeting
  BY <1>1, <1>2 DEF Ask, Throw, Begin, AddPhoto, Look, Stage, Verify, Finalize, OpenDb,
       Commit, Close, Cleanup
<1>3. ASSUME NEW j \in Jobs, Backup(j) \/ Restore(j)
      PROVE  Meeting
  BY <1>1, <1>3 DEF Backup, ReadRows, Vacuum, ReadFiles, Save, Restore, Prepare,
       MoveOldDb, MoveOldAtts, MoveNewDb, MoveNewAtts, Check, Notify, Reconciled,
       Complete
<1> QED
  BY <1>2, <1>3 DEF Next, Step, Crash

\* The history has every call that a restore or a backup meets, for good.
LEMMA MeetStep ==
  ASSUME NEW X, X = Overtaken, NEW B, B = Besides, NEW Y, Y = Overtaken',
         NEW C, C = Besides', MeetInv(X, B), [Next]_vars
  PROVE  MeetInv(Y, C)' /\ X \subseteq Y /\ \A b \in Jobs : B[b] \subseteq C[b]
<1>1. met \subseteq met'
  BY Meetings DEF Meeting, vars
<1>2. X \subseteq Y
  BY <1>1 DEF Overtaken
<1>3. ASSUME NEW b \in Jobs PROVE B[b] \subseteq C[b] /\ C[b] = AddedBeside(b)'
  BY <1>1, <1>3 DEF Besides, AddedBeside
<1>4. CASE Next
  <2>1. ASSUME NEW b \in Jobs, NEW k \in Jobs, Meets(b, k)'
        PROVE  <<b, k>> \in met' /\ <<b, k>>[1] = b /\ <<b, k>>[2] = k
    <3>1. met' = met \cup {p \in Jobs \X Jobs : Meets(p[1], p[2])'}
      BY <1>4, Meetings DEF Meeting
    <3> QED
      BY <2>1, <3>1
  <2>2. ASSUME NEW r \in Jobs, NEW k \in Jobs, Kind[r] = "restore", Meets(r, k)'
        PROVE  Photo[k] \in Y
    BY <2>1, <2>2 DEF Overtaken
  <2>3. ASSUME NEW b \in Jobs, NEW k \in Jobs, Kind[k] = "inventory", Meets(b, k)'
        PROVE  Photo[k] \in C[b]
    <3>1. <<b, k>> \in met' /\ <<b, k>>[1] = b /\ <<b, k>>[2] = k
      BY <2>1, <2>3
    <3>2. Photo[k] \in AddedBeside(b)'
      BY <2>3, <3>1 DEF AddedBeside
    <3> QED
      BY <1>3, <3>2
  <2> QED
    BY <1>2, <1>3, <2>2, <2>3 DEF MeetInv
<1>5. CASE UNCHANGED vars
  <2>1. at' = at /\ met' = met
    BY <1>5 DEF vars
  <2>2. \A b, k \in Jobs : Meets(b, k)' => Meets(b, k)
    BY <2>1 DEF Meets, Holds, UnderWay
  <2> QED
    BY <1>2, <1>3, <2>2 DEF MeetInv
<1> QED
  BY <1>4, <1>5

\* An empty data root satisfies the invariant.
LEMMA Inits ==
  ASSUME Init, NEW X, NEW B
  PROVE  IInv(X, B)
<1>1. \A j \in Jobs : /\ at[j] = "new" /\ ~Holding(j) /\ ~Pending(j) /\ ~Opened(j)
                      /\ ~Midway(j) /\ OnPath(j) /\ ~UnderWay(j)
  BY DEF Init, Holding, Pending, Opened, Staging, Midway, OnPath, Outside, Swapping,
         UnderWay
<1>2. PathInv
  <2>1. queue \in [Lanes -> Seq(Jobs \X {"call", "nested"})]
    BY DEF Init
  <2>2. at \in [Jobs -> Steps \cup Outside \cup {"cleanup"}]
    BY DEF Init, Outside
  <2> QED
    BY <1>1, <2>1, <2>2 DEF PathInv
<1>3. /\ active = Empty /\ old = Nothing /\ temp = {} /\ saved = {} /\ crashes = 0
      /\ conn = [j \in Jobs |-> "none"]
      /\ package = [j \in Jobs |-> Empty] /\ incoming = [j \in Jobs |-> Empty]
  BY DEF Init
<1>4. KeptRows = {} /\ KeptFiles = {} /\ {} # NoFile
  BY <1>3, NoFileIsNoSet DEF KeptRows, KeptFiles, Empty, Nothing
<1>5. DataTyped
  BY <1>3 DEF DataTyped, Empty, Nothing, Sets
<1>6. KeptInv(X) /\ SwapInv(X)
  BY <1>1, <1>3, <1>4 DEF KeptInv, SwapInv, SwapAt
<1>7. OwnInv(X) /\ ConnInv(X) /\ LeftInv(X)
  BY <1>1, <1>3, <1>4 DEF OwnInv, ConnInv, LeftInv
<1>8. PackInv(B)
  BY <1>1, <1>3 DEF PackInv, PackAt, Restorable, Empty
<1>9. AckInv(X)
  BY <1>1, <1>3 DEF AckInv, AckAt, Swapping
<1>10. MeetInv(X, B) /\ TwoInv /\ StageInv(X)
  BY <1>1 DEF MeetInv, Meets, TwoInv, StageInv
<1> QED
  BY <1>2, <1>5, <1>6, <1>7, <1>8, <1>9, <1>10 DEF IInv, DataInv

\* The invariant is kept when more calls have met.
LEMMA InvStep ==
  ASSUME CloseReturns, Inv, [Next]_vars
  PROVE  Inv'
<1>1. PICK X, B : X = Overtaken /\ B = Besides /\ IInv(X, B)
  BY DEF Inv
<1>2. PICK Y, C : Y = Overtaken' /\ C = Besides'
  OBVIOUS
<1>3. MeetInv(Y, C)' /\ X \subseteq Y /\ \A b \in Jobs : B[b] \subseteq C[b]
  BY <1>1, <1>2, MeetStep DEF IInv
<1>4. PathInv' /\ TwoInv'
  BY <1>1, PathStep, TwoStep DEF IInv
<1>5. DataInv(X, B)' /\ StageInv(X)'
  BY <1>1, DataStep, StageStep
<1>6. DataInv(Y, C)' /\ StageInv(Y)'
  BY <1>3, <1>5, MoreMet
<1>7. IInv(Y, C)'
  BY <1>3, <1>4, <1>6 DEF IInv
<1> QED
  BY <1>2, <1>7 DEF Inv

\* The invariant of the proofs.
LEMMA Inductive == CloseReturns /\ Spec => []Inv
<1> DEFINE Kept == CloseReturns /\ Inv
<1>1. CloseReturns /\ Init => Kept
  <2> SUFFICES ASSUME Init PROVE Inv
    BY DEF Kept
  <2>1. PICK X, B : X = Overtaken /\ B = Besides
    OBVIOUS
  <2> QED
    BY <2>1, Inits DEF Inv
<1>2. Kept /\ [Next]_vars => Kept'
  BY InvStep DEF CloseReturns
<1>3. Kept => Inv
  OBVIOUS
<1> QED
  BY <1>1, <1>2, <1>3, PTL DEF Spec

\* A row has its file, for any number of calls, two calls of a log under one id
\* whose looks, writes and renames interleave, exceptions and process deaths,
\* and any restores.  Excepted are the photos of logs and assets that were being
\* added while a restore ran.  (stage, cleanup, the catch blocks, rollbackToOld)
THEOREM RowsKeepFiles == CloseReturns /\ Spec => []RowsHaveFiles
<1>1. Inv => RowsHaveFiles
  <2> SUFFICES ASSUME Inv, ~SwapUnderWay
               PROVE  active.rows # NoFile /\ There(active.rows \ Overtaken, active.files)
    BY DEF RowsHaveFiles
  <2>1. PICK X, B : X = Overtaken /\ B = Besides /\ IInv(X, B)
    BY DEF Inv
  <2>2. Calm
    BY DEF SwapUnderWay, Calm, Midway
  <2> QED
    BY <2>1, <2>2, CalmRoot DEF IInv, There
<1> QED
  BY <1>1, Inductive, PTL

\* The manifest of every package a backup reports lists the rows of its own
\* snapshot, whatever runs beside it; an asset photo, the one call that commits
\* between the two reads, alone may be missing.  (_createBackupInside)
THEOREM PackagesAlwaysRestorable == CloseReturns /\ Spec => []PackagesRestorable
<1>1. Inv => PackagesRestorable
  <2> SUFFICES ASSUME Inv, NEW j \in saved
               PROVE  /\ package[j].files \subseteq package[j].rows
                      /\ package[j].rows \subseteq package[j].files \union AddedBeside(j)
    BY DEF PackagesRestorable
  <2>1. PICK X, B : X = Overtaken /\ B = Besides /\ IInv(X, B)
    BY DEF Inv
  <2>2. j \in Jobs /\ PackAt(B, j)
    BY <2>1 DEF IInv, DataInv, DataTyped, PackInv
  <2>3. B[j] = AddedBeside(j)
    BY <2>1, <2>2 DEF Besides
  <2> QED
    BY <2>2, <2>3 DEF PackAt, Lists
<1> QED
  BY <1>1, Inductive, PTL

\* A photo whose call came back is in the data root, or aside while a restore
\* swaps, or in the safety package of a restore that replaced it.  Excepted are
\* the photos of logs and assets that were being added while a restore ran.
\* (restoreBackup: the safety backup and the swap see the same rows)
THEOREM AcknowledgedAlwaysKept == CloseReturns /\ Spec => []AcknowledgedKept
<1>1. Inv => AcknowledgedKept
  <2> SUFFICES ASSUME Inv, NEW j \in Jobs, at[j] = "done", Kind[j] \in Attaching
               PROVE  \/ Photo[j] \in Overtaken
                      \/ Has(active.rows, Photo[j]) \/ Has(old.rows, Photo[j])
                      \/ \E p \in SafetyPackages : Photo[j] \in p.rows
    BY DEF AcknowledgedKept
  <2>1. PICK X, B : X = Overtaken /\ B = Besides /\ IInv(X, B)
    BY DEF Inv
  <2>2. AckAt(X, j) /\ KeptRows # NoFile
    BY <2>1 DEF IInv, DataInv, AckInv, KeptInv
  <2>3. CASE Photo[j] \in KeptRows
    BY <2>2, <2>3 DEF KeptRows, Has
  <2>4. CASE \E r \in saved : Kind[r] = "restore" /\ Photo[j] \in package[r].rows
    BY <2>4 DEF SafetyPackages
  <2> QED
    BY <2>1, <2>2, <2>3, <2>4 DEF AckAt
<1> QED
  BY <1>1, Inductive, PTL

\* When no call runs and the process never died, each file has its row and
\* nothing is staged.  Excepted are the files of logs and assets that were being
\* added while a restore ran.  (cleanup in every catch block)
THEOREM CleanAtRest == CloseReturns /\ Spec => []NothingLeftBehind
<1>1. Inv => NothingLeftBehind
  <2> SUFFICES ASSUME Inv, AtRest, crashes = 0
               PROVE  active.files \ Overtaken \subseteq active.rows /\ temp = {}
    BY DEF NothingLeftBehind
  <2>1. PICK X, B : X = Overtaken /\ B = Besides /\ IInv(X, B)
    BY DEF Inv
  <2>2. \A j \in Jobs : ~Pending(j) /\ ~Midway(j) /\ ~Staged(j)
    BY DEF AtRest, Pending, Midway, Staged, Swapping, Ended
  <2>3. KeptRows = active.rows /\ KeptFiles = active.files
    BY <2>1, <2>2, CalmRoot DEF IInv, Calm
  <2> QED
    BY <2>1, <2>2, <2>3 DEF IInv, DataInv, LeftInv
<1> QED
  BY <1>1, Inductive, PTL

\* The histories and the two bounds.
Counts ==
  /\ order \in Seq(Jobs) /\ faults \in 0..MaxFaults /\ crashes \in 0..MaxCrashes
  /\ met \subseteq Jobs \X Jobs

\* The histories grow by calls, the bounds are kept.
LEMMA CountStep ==
  ASSUME Counts, [Next]_vars
  PROVE  Counts'
<1>1. ASSUME NEW j \in Jobs, NEW s, GoTo(j, s) PROVE order' \in Seq(Jobs)
  BY <1>1, AppendProperties DEF GoTo, Enqueue, Counts
<1>2. ASSUME NEW j \in Jobs, Fail(j) PROVE order' = order
  BY <1>2 DEF Fail
<1>3. ASSUME NEW j \in Jobs, Begin(j) \/ AddPhoto(j)
      PROVE  order' \in Seq(Jobs) /\ UNCHANGED budget
  BY <1>1, <1>2, <1>3 DEF Begin, AddPhoto, Look, Stage, Verify, Finalize, OpenDb,
       Commit, Close, Cleanup, Proceed, Refuse, Counts
<1>4. ASSUME NEW j \in Jobs, Backup(j) \/ Restore(j)
      PROVE  order' \in Seq(Jobs) /\ UNCHANGED budget
  BY <1>1, <1>2, <1>4 DEF Backup, ReadRows, Vacuum, ReadFiles, Save, Restore, Prepare,
       MoveOldDb, MoveOldAtts, MoveNewDb, MoveNewAtts, Check, Notify, Reconciled,
       Complete, Proceed, Refuse, Counts
<1>5. ASSUME NEW j \in Jobs, Ask(j) \/ Throw(j)
      PROVE  order' \in Seq(Jobs) /\ faults' \in 0..MaxFaults /\ crashes' = crashes
  BY <1>1, <1>2, <1>5, Inputs DEF Ask, Throw, Counts, budget
<1>6. ASSUME Crash
      PROVE  order' \in Seq(Jobs) /\ faults' = faults /\ crashes' \in 0..MaxCrashes
  BY <1>6, Inputs DEF Crash, Counts
<1>7. met' \subseteq Jobs \X Jobs
  BY Meetings DEF Meeting, vars, Counts
<1>8. CASE UNCHANGED vars
  BY <1>8 DEF vars, budget, Counts
<1> QED
  BY <1>3, <1>4, <1>5, <1>6, <1>7, <1>8 DEF Next, Step, Counts, budget

\* The histories are histories of calls.
LEMMA Counted == Spec => []Counts
<1>1. Init => Counts
  BY Inputs DEF Init, Counts
<1>2. Counts /\ [Next]_vars => Counts'
  BY CountStep
<1> QED
  BY <1>1, <1>2, PTL DEF Spec

\* Every variable stays in its type; a backup never packs the rows or the files
\* of a root that is not in its place.  (_createBackupInside behind the queue)
THEOREM TypeCorrect == CloseReturns /\ Spec => []TypeOK
<1>1. Inv /\ Counts => TypeOK
  <2> SUFFICES ASSUME Inv, Counts PROVE TypeOK
    OBVIOUS
  <2>1. PICK X, B : IInv(X, B)
    BY DEF Inv
  <2>2. \A j \in Jobs : NoFile \notin {package[j].rows, package[j].files}
    BY <2>1, NoFileIsNoSet DEF IInv, DataInv, DataTyped
  <2>3. at \in [Jobs -> Steps \cup Ended \cup {"new", "cleanup"}]
    BY <2>1 DEF IInv, PathInv, Outside
  <2> QED
    BY <2>1, <2>2, <2>3 DEF IInv, PathInv, DataInv, DataTyped, Counts, TypeOK
<1> QED
  BY <1>1, Counted, Inductive, PTL

-----------------------------------------------------------------------------
(* Who is before whom. *)

Lined == queue["shared"]

\* How many calls of the history have left the queue.
Gone == Len(order) - Len(Lined)

\* The call has not reached its queue.
ToEnter(j) ==
  at[j] = "new" \/ (Kind[j] = "agenda" /\ at[j] \in Staging \cup {"look"})

\* The calls that have left are over, the next one runs, the others wait.
PlaceAt(m) ==
  LET j == order[m] IN
  /\ Lane(j) = "shared" /\ ~ToEnter(j)
  /\ m <= Gone => at[j] \in Ended \/ (at[j] = "cleanup" /\ Kind[j] = "agenda")
  /\ m = Gone + 1 => at[j] \in Steps \/ (at[j] = "cleanup" /\ Kind[j] # "agenda")
  /\ m > Gone + 1 => at[j] = "queued"

\* The shared queue is the end of the history of the calls that entered it.
TurnInv ==
  /\ Len(Lined) <= Len(order)
  /\ \A i \in 1..Len(Lined) : Lined[i] = Call(order[Gone + i])
  /\ \A m, n \in 1..Len(order) : order[m] = order[n] => m = n
  /\ \A m \in 1..Len(order) : PlaceAt(m)

\* What the lengths are, and who is at the head.
LEMMA LineFacts ==
  ASSUME PathInv, Counts
  PROVE  /\ queue \in Queues /\ Lined \in Seq(Jobs \X {"call", "nested"})
         /\ Len(Lined) \in Nat /\ Len(order) \in Nat /\ order \in Seq(Jobs)
         /\ \A m \in 1..Len(order) : order[m] \in Jobs
         /\ TurnInv => Gone \in Nat /\ Gone <= Len(order)
         /\ TurnInv =>
              \A j \in Jobs : Lane(j) = "shared" /\ Running(j) =>
                Len(Lined) >= 1 /\ Gone + 1 \in 1..Len(order) /\ order[Gone + 1] = j
<1>1. /\ queue \in Queues /\ Lined \in Seq(Jobs \X {"call", "nested"})
      /\ Len(Lined) \in Nat /\ Len(order) \in Nat /\ order \in Seq(Jobs)
      /\ \A m \in 1..Len(order) : order[m] \in Jobs
  BY DEF PathInv, Queues, Lined, Lanes, Counts
<1>2. TurnInv => Gone \in Nat /\ Gone <= Len(order)
  BY <1>1 DEF TurnInv, Gone
<1>3. ASSUME TurnInv, NEW j \in Jobs, Lane(j) = "shared", Running(j)
      PROVE  Len(Lined) >= 1 /\ Gone + 1 \in 1..Len(order) /\ order[Gone + 1] = j
  <2>1. Lined # << >> /\ Head(Lined) = Call(j)
    BY <1>3 DEF Running, Heads, Lined
  <2>2. Len(Lined) >= 1 /\ Lined[1] = Call(j)
    BY <1>1, <2>1
  <2>3. Gone + 1 \in 1..Len(order)
    BY <1>1, <1>2, <1>3, <2>2 DEF Gone
  <2>4. Call(order[Gone + 1]) = Call(j) /\ order[Gone + 1] \in Jobs
    BY <1>1, <1>3, <2>2, <2>3 DEF TurnInv
  <2> QED
    BY <2>2, <2>3, <2>4, Tickets
<1> QED
  BY <1>1, <1>2, <1>3

\* A call that enters the shared queue is the last of both.
LEMMA EntersLine ==
  ASSUME PathInv, Counts, TurnInv, NEW j \in Jobs, ToEnter(j), Lane(j) = "shared",
         at' = [at EXCEPT ![j] = "queued"], Enqueue(j)
  PROVE  TurnInv'
<1> DEFINE N == Len(order)
<1>1. /\ Lined' = Append(Lined, Call(j)) /\ order' = Append(order, j)
      /\ at'[j] = "queued" /\ \A k \in Jobs \ {j} : at'[k] = at[k]
  BY DEF Enqueue, Lined, PathInv, Lanes
<1>2. /\ Len(Lined)' = Len(Lined) + 1 /\ Len(order)' = N + 1
      /\ \A i \in 1..Len(Lined) : Lined'[i] = Lined[i]
      /\ Lined'[Len(Lined) + 1] = Call(j)
      /\ \A m \in 1..N : order'[m] = order[m]
      /\ order'[N + 1] = j
  BY <1>1, LineFacts, AppendProperties
<1>3. Gone' = Gone
  BY <1>2, LineFacts DEF Gone
<1>4. \A m \in 1..N : order[m] # j /\ order[m] \in Jobs
  BY LineFacts DEF TurnInv, PlaceAt
<1>5. \A i \in 1..Len(Lined)' : Lined'[i] = Call(order'[Gone + i])
  <2> SUFFICES ASSUME NEW i \in 1..(Len(Lined) + 1)
               PROVE  Lined'[i] = Call(order'[Gone + i])
    BY <1>2
  <2>1. i \in Nat /\ Gone \in Nat /\ Len(Lined) \in Nat /\ N \in Nat
    BY LineFacts
  <2>2. CASE i = Len(Lined) + 1
    <3>1. Gone + i = N + 1
      BY <2>1, <2>2, LineFacts DEF Gone
    <3> QED
      BY <1>2, <2>2, <3>1
  <2>3. CASE i # Len(Lined) + 1
    <3>1. i \in 1..Len(Lined) /\ Gone + i \in 1..N
      BY <2>1, <2>3, LineFacts DEF Gone
    <3> QED
      BY <1>2, <3>1 DEF TurnInv
  <2> QED
    BY <2>2, <2>3
<1>6. \A m, n \in 1..Len(order)' : order'[m] = order'[n] => m = n
  <2>1. N \in Nat /\ \A m, n \in 1..N : order[m] = order[n] => m = n
    BY LineFacts DEF TurnInv
  <2> SUFFICES ASSUME NEW m \in 1..(N + 1), NEW n \in 1..(N + 1), order'[m] = order'[n]
               PROVE  m = n
    BY <1>2
  <2>2. (m \in 1..N \/ m = N + 1) /\ (n \in 1..N \/ n = N + 1)
    BY <2>1
  <2> QED
    BY <1>2, <1>4, <2>1, <2>2
<1>7. \A m \in 1..Len(order)' : PlaceAt(m)'
  <2> SUFFICES ASSUME NEW m \in 1..Len(order)' PROVE PlaceAt(m)'
    OBVIOUS
  <2>1. m \in Nat /\ N \in Nat /\ Gone \in Nat /\ Gone <= N /\ (m \in 1..N \/ m = N + 1)
    BY <1>2, LineFacts
  <2>2. CASE m \in 1..N
    BY <1>1, <1>2, <1>3, <1>4, <2>2 DEF TurnInv, PlaceAt, ToEnter, Lane, Staging
  <2>3. CASE m = N + 1
    <3>1. order'[m] = j /\ at'[j] = "queued"
      BY <1>1, <1>2, <2>3
    <3>2. Lane(j)' = "shared" /\ ~ToEnter(j)'
      BY <3>1 DEF Lane, ToEnter, Staging
    <3> QED
      BY <1>3, <2>1, <2>3, <3>1, <3>2 DEF PlaceAt, Steps, Staging
  <2> QED
    BY <2>1, <2>2, <2>3
<1>8. Len(Lined)' <= Len(order)'
  BY <1>2, LineFacts DEF TurnInv
<1> QED
  BY <1>3, <1>5, <1>6, <1>7, <1>8 DEF TurnInv

\* A call at the head that leaves has been the next one of the history.
LEMMA LeavesLine ==
  ASSUME PathInv, Counts, TurnInv, NEW j \in Jobs, Lane(j) = "shared", Running(j),
         NEW s, at' = [at EXCEPT ![j] = s], order' = order, Release(j),
         s \in Ended \/ (s = "cleanup" /\ Kind[j] = "agenda")
  PROVE  TurnInv'
<1> DEFINE N == Len(order)
<1>1. /\ Lined' = Tail(Lined)
      /\ at'[j] = s /\ \A k \in Jobs \ {j} : at'[k] = at[k]
  BY DEF Release, Lined, PathInv, Lanes
<1>2. Len(Lined) >= 1 /\ Gone + 1 \in 1..N /\ order[Gone + 1] = j
  BY LineFacts
<1>3. /\ Len(Lined)' = Len(Lined) - 1
      /\ \A i \in 1..(Len(Lined) - 1) : Lined'[i] = Lined[i + 1]
  <2>1. Lined # << >>
    BY <1>2, LineFacts
  <2> QED
    BY <1>1, <2>1, LineFacts, HeadTailProperties
<1>4. Gone' = Gone + 1
  BY <1>3, LineFacts DEF Gone
<1>5. \A i \in 1..Len(Lined)' : Lined'[i] = Call(order'[Gone' + i])
  <2>1. \A i \in 1..(Len(Lined) - 1) : Lined[i + 1] = Call(order[Gone + (i + 1)])
    BY LineFacts DEF TurnInv
  <2>2. \A i \in 1..(Len(Lined) - 1) : Gone + (i + 1) = Gone' + i
    BY <1>4, LineFacts
  <2> QED
    BY <1>3, <2>1, <2>2, LineFacts
<1>6. \A m \in 1..N : m # Gone + 1 => order[m] \in Jobs \ {j}
  BY <1>2, LineFacts DEF TurnInv
<1>7. \A m \in 1..N : PlaceAt(m)'
  <2> SUFFICES ASSUME NEW m \in 1..N PROVE PlaceAt(m)'
    OBVIOUS
  <2>1. PlaceAt(m) /\ m \in Nat /\ Gone \in Nat
    BY LineFacts DEF TurnInv
  <2>2. CASE m = Gone + 1
    BY <1>1, <1>2, <1>4, <2>1, <2>2 DEF PlaceAt, ToEnter, Lane, Ended, Staging
  <2>3. CASE m # Gone + 1
    BY <1>1, <1>4, <1>6, <2>1, <2>3 DEF PlaceAt, ToEnter, Lane, Steps, Staging
  <2> QED
    BY <2>2, <2>3
<1>8. Len(Lined)' <= Len(order)'
  BY <1>3, LineFacts DEF TurnInv
<1>9. \A m, n \in 1..Len(order)' : order'[m] = order'[n] => m = n
  BY DEF TurnInv
<1> QED
  BY <1>5, <1>7, <1>8, <1>9 DEF TurnInv

\* A call that moves without entering or leaving: it is not of this queue, or
\* it is at the head, or it has left and ends its clean-up.
LEMMA StaysInLine ==
  ASSUME PathInv, Counts, TurnInv, NEW j \in Jobs, NEW s,
         at' = [at EXCEPT ![j] = s], order' = order, Lined' = Lined,
         \/ Lane(j) = "inventory" \/ ToEnter(j)
         \/ /\ Lane(j) = "shared" /\ Running(j) /\ ~ToEnter(j)'
            /\ s \in Steps \/ (s = "cleanup" /\ Kind[j] # "agenda")
         \/ at[j] = "cleanup" /\ Kind[j] = "agenda" /\ s = "failed"
  PROVE  TurnInv'
<1> DEFINE N == Len(order)
<1>1. at'[j] = s /\ \A k \in Jobs \ {j} : at'[k] = at[k]
  BY DEF PathInv
<1>2. Gone' = Gone
  BY DEF Gone
<1>3. \A m \in 1..N : PlaceAt(m)'
  <2> SUFFICES ASSUME NEW m \in 1..N PROVE PlaceAt(m)'
    OBVIOUS
  <2>1. PlaceAt(m) /\ m \in Nat /\ Gone \in Nat /\ order[m] \in Jobs
    BY LineFacts DEF TurnInv
  <2>2. CASE order[m] # j
    BY <1>1, <1>2, <2>1, <2>2 DEF PlaceAt, ToEnter, Lane, Staging
  <2>3. CASE order[m] = j
    <3>1. Lane(j) = "shared" /\ ~ToEnter(j) /\ "inventory" # "shared"
      BY <2>1, <2>3 DEF PlaceAt
    <3>2. CASE Running(j)
      <4>1. m = Gone + 1
        BY <2>3, <3>1, <3>2, LineFacts DEF TurnInv
      <4>2. ~(at[j] = "cleanup" /\ Kind[j] = "agenda")
        BY <2>1, <2>3, <4>1 DEF PlaceAt, Steps, Staging
      <4> QED
        BY <1>1, <1>2, <2>1, <2>3, <3>1, <4>1, <4>2 DEF PlaceAt, Lane
    <3>3. CASE ~Running(j)
      <4>1. at[j] = "cleanup" /\ Kind[j] = "agenda" /\ s = "failed"
        BY <3>1, <3>3
      <4>2. m <= Gone
        BY <2>1, <2>3, <4>1 DEF PlaceAt, Steps, Staging
      <4> QED
        BY <1>1, <1>2, <2>1, <2>3, <3>1, <4>1, <4>2 DEF PlaceAt, Lane, ToEnter, Ended,
       Staging
    <3> QED
      BY <3>2, <3>3
  <2> QED
    BY <2>2, <2>3
<1> QED
  BY <1>2, <1>3 DEF TurnInv

\* Two kinds of queue: the one of asset photos, and the shared one.
LEMMA LanesAre ==
  ASSUME NEW j \in Jobs
  PROVE  /\ Kind[j] = "inventory" => Lane(j) = "inventory"
         /\ Kind[j] # "inventory" => Lane(j) = "shared"
         /\ queue \in Queues /\ Lane(j) = "inventory" =>
              /\ Enqueue(j) => order' = order /\ Lined' = Lined
              /\ Release(j) => Lined' = Lined
BY DEF Lane, Queues, Enqueue, Release, Lined, Lanes

\* A call that has not reached the queue is not at its head.
LEMMA NotYetRunning ==
  ASSUME PathInv, Counts, TurnInv, NEW j \in Jobs, Kind[j] = "agenda",
         ToEnter(j) \/ at[j] = "cleanup"
  PROVE  ~Running(j)
<1> SUFFICES ASSUME Running(j) PROVE FALSE
  OBVIOUS
<1>1. Gone + 1 \in 1..Len(order) /\ order[Gone + 1] = j /\ Gone \in Nat
  BY LineFacts, LanesAre
<1>2. PlaceAt(Gone + 1)
  BY <1>1 DEF TurnInv
<1> QED
  BY <1>1, <1>2 DEF PlaceAt, Steps, Staging

\* A step that returns keeps the order of the queue.
LEMMA TurnGoesOn ==
  ASSUME PathInv, Counts, TurnInv, NEW j \in Jobs, at[j] \in Steps,
         at[j] = "queued" => Running(j), GoTo(j, After(j))
  PROVE  TurnInv'
<1> DEFINE s == After(j)
<1>1. /\ at' = [at EXCEPT ![j] = s] /\ at'[j] = s
      /\ s = "queued" => Enqueue(j)
      /\ s \in Ended => Release(j) /\ order' = order
      /\ s # "queued" /\ s \notin Ended => order' = order /\ queue' = queue
  BY DEF GoTo, PathInv, Ended
<1>2. OnPath(j) /\ (Holding(j) => Running(j)) /\ queue \in Queues
  BY DEF PathInv, Queues
<1>3. CASE Kind[j] = "inventory"
  <2>1. order' = order /\ Lined' = Lined
    BY <1>1, <1>2, <1>3, LanesAre DEF Lined
  <2> QED
    BY <1>1, <1>3, <2>1, StaysInLine, LanesAre
<1>4. CASE Kind[j] = "agenda" /\ at[j] \in Staging \cup {"look"}
  <2>1. ToEnter(j) /\ Lane(j) = "shared"
    BY <1>4, LanesAre DEF ToEnter, Staging
  <2>2. CASE at[j] # "finalize"
    <3>1. s \in {"stage", "verify", "finalize"}
      BY <1>4, <2>2, AgendaPath DEF Staging
    <3> QED
      BY <1>1, <2>1, <3>1, StaysInLine DEF Ended, Lined
  <2>3. CASE at[j] = "finalize"
    <3>1. s = "queued"
      BY <1>4, <2>3, AgendaPath
    <3> QED
      BY <1>1, <2>1, <3>1, EntersLine
  <2> QED
    BY <1>4, <2>2, <2>3
<1>5. CASE Kind[j] # "inventory" /\ ~(Kind[j] = "agenda" /\ at[j] \in Staging \cup {"look"})
  <2>1. Running(j) /\ Lane(j) = "shared"
    <3>1. Kind[j] = "agenda" => at[j] \in {"queued", "open", "commit", "close"}
      BY <1>2, <1>5 DEF OnPath, Attaching, AddingSteps, Outside, Ended, Steps,
       Staging
    <3> QED
      BY <1>2, <1>5, <3>1, LanesAre DEF Holding, Outside, Ended, Steps, Staging
  <2>2. /\ s \in Steps \cup {"done"} /\ s # "queued"
        /\ Kind[j] = "agenda" => s \notin Staging \cup {"look"}
    <3>1. CASE Kind[j] = "agenda"
      BY <1>2, <1>5, <3>1, AgendaPath
         DEF OnPath, Attaching, AddingSteps, Outside, Ended, Steps, Staging
    <3>2. CASE Kind[j] = "evidence"
      BY <1>2, <3>2, EvidencePath
         DEF OnPath, Attaching, AddingSteps, Outside, Ended, Steps, Staging
    <3>3. CASE Kind[j] = "backup"
      BY <1>2, <3>3, BackupPath DEF OnPath, PackingSteps, Outside, Ended, Steps,
       Staging
    <3>4. CASE Kind[j] = "restore"
      BY <1>2, <3>4, RestorePath
         DEF OnPath, PackingSteps, Swapping, Outside, Ended, Steps, Staging
    <3> QED
      BY <1>5, <3>1, <3>2, <3>3, <3>4, KindsAre
  <2>3. CASE s = "done"
    BY <1>1, <2>1, <2>3, LeavesLine DEF Ended
  <2>4. CASE s \in Steps
    <3>1. s \notin Ended /\ ~ToEnter(j)'
      BY <1>1, <2>2, <2>4 DEF Ended, Steps, ToEnter, Staging
    <3> QED
      BY <1>1, <2>1, <2>2, <2>4, <3>1, StaysInLine DEF Lined
  <2> QED
    BY <2>2, <2>3, <2>4
<1> QED
  BY <1>3, <1>4, <1>5

\* A step that throws keeps the order of the queue.
LEMMA TurnFails ==
  ASSUME PathInv, Counts, TurnInv, NEW j \in Jobs, at[j] \in Steps \ {"queued"}, Fail(j)
  PROVE  TurnInv'
<1>1. PICK s \in {"cleanup", "failed"} :
        /\ at' = [at EXCEPT ![j] = s]
        /\ s = "cleanup" => OwnsFile(j)
        /\ IF s = "cleanup" /\ Kind[j] # "agenda"
             THEN queue' = queue ELSE Release(j)
        /\ order' = order
  BY DEF Fail
<1>2. /\ at'[j] = s /\ OnPath(j) /\ (Holding(j) => Running(j)) /\ queue \in Queues
      /\ s = "failed" => s \in Ended
  BY <1>1 DEF PathInv, Queues, Ended
<1>3. CASE Kind[j] = "inventory"
  <2>1. Lined' = Lined
    BY <1>1, <1>2, <1>3, LanesAre DEF Lined
  <2> QED
    BY <1>1, <1>3, <2>1, StaysInLine, LanesAre
<1>4. CASE Kind[j] = "agenda" /\ at[j] \in Staging \cup {"look"}
  <2>1. ToEnter(j) /\ ~Running(j)
    BY <1>4, NotYetRunning DEF ToEnter, Staging
  <2>2. ~OwnsFile(j)
    BY <1>4, AgendaPath DEF AddingSteps, Staging
  <2>3. queue' = queue
    BY <1>1, <2>1, <2>2 DEF Release
  <2> QED
    BY <1>1, <2>1, <2>3, StaysInLine DEF Lined
<1>5. CASE Kind[j] # "inventory" /\ ~(Kind[j] = "agenda" /\ at[j] \in Staging \cup {"look"})
  <2>1. Running(j) /\ Lane(j) = "shared"
    <3>1. Kind[j] = "agenda" => at[j] \in {"open", "commit", "close"}
      BY <1>2, <1>5 DEF OnPath, Attaching, AddingSteps, Outside, Ended, Steps,
       Staging
    <3> QED
      BY <1>2, <1>5, <3>1, LanesAre DEF Holding, Outside, Ended, Steps, Staging
  <2>2. CASE s = "cleanup" /\ Kind[j] # "agenda"
    <3>1. queue' = queue /\ ~ToEnter(j)'
      BY <1>1, <1>2, <2>2 DEF ToEnter, Staging
    <3> QED
      BY <1>1, <2>1, <2>2, <3>1, StaysInLine DEF Lined
  <2>3. CASE ~(s = "cleanup" /\ Kind[j] # "agenda")
    BY <1>1, <1>2, <2>1, <2>3, LeavesLine
  <2> QED
    BY <2>2, <2>3
<1> QED
  BY <1>3, <1>4, <1>5

\* A clean-up or a first look that ends: that of a log is outside the queue.
LEMMA TurnCleansUp ==
  ASSUME PathInv, Counts, TurnInv, NEW j \in Jobs, at[j] \in {"look", "cleanup"},
         GoTo(j, "failed")
  PROVE  TurnInv'
<1>1. /\ at' = [at EXCEPT ![j] = "failed"] /\ Release(j) /\ order' = order
      /\ queue \in Queues /\ OnPath(j) /\ (Holding(j) => Running(j))
  BY DEF GoTo, PathInv, Queues, Ended
<1>2. CASE Kind[j] = "inventory"
  BY <1>1, <1>2, LanesAre, StaysInLine
<1>3. CASE Kind[j] = "agenda"
  <2>1. ToEnter(j) \/ at[j] = "cleanup"
    BY <1>3 DEF ToEnter, Staging
  <2>2. queue' = queue
    BY <1>1, <1>3, <2>1, NotYetRunning DEF Release
  <2> QED
    BY <1>1, <1>3, <2>1, <2>2, StaysInLine DEF Lined
<1>4. CASE Kind[j] \notin {"inventory", "agenda"}
  <2>1. Running(j) /\ Lane(j) = "shared"
    BY <1>1, <1>4, LanesAre DEF Holding, Outside, Ended
  <2> QED
    BY <1>1, <2>1, LeavesLine DEF Ended
<1> QED
  BY <1>2, <1>3, <1>4

\* A call that is asked for enters the queue, or is to enter it later.
LEMMA TurnAsks ==
  ASSUME PathInv, Counts, TurnInv, NEW j \in Jobs, Ask(j)
  PROVE  TurnInv'
<1> DEFINE s == Path[Kind[j]][1]
<1>1. /\ at[j] = "new" /\ GoTo(j, s) /\ queue \in Queues /\ ToEnter(j)
      /\ s = IF Kind[j] = "agenda" THEN "look" ELSE "queued"
  BY KindsAre, AgendaPath, EvidencePath, InventoryPath, BackupPath, RestorePath
     DEF Ask, PathInv, Queues, ToEnter, Staging
<1>2. /\ at' = [at EXCEPT ![j] = s]
      /\ s = "queued" => Enqueue(j)
      /\ s # "queued" => order' = order /\ queue' = queue
  BY <1>1 DEF GoTo, Ended
<1>3. CASE Kind[j] = "agenda"
  BY <1>1, <1>2, <1>3, StaysInLine DEF Lined
<1>4. CASE Kind[j] = "inventory"
  BY <1>1, <1>2, <1>4, LanesAre, StaysInLine
<1>5. CASE Kind[j] \notin {"agenda", "inventory"}
  BY <1>1, <1>2, <1>5, LanesAre, EntersLine
<1> QED
  BY <1>3, <1>4, <1>5

\* Every step keeps the queue the end of the history.
LEMMA TurnStep ==
  ASSUME PathInv, Counts, TurnInv, [Next]_vars
  PROVE  TurnInv'
<1>1. ASSUME NEW j \in Jobs, Begin(j) \/ Backup(j) \/ Prepare(j) \/ MoveOldDb(j)
               \/ MoveOldAtts(j) \/ MoveNewDb(j) \/ MoveNewAtts(j) \/ Check(j)
               \/ Complete(j) \/ Stage(j) \/ Verify(j) \/ Finalize(j) \/ OpenDb(j)
               \/ Commit(j) \/ Close(j)
      PROVE  TurnInv'
  <2>1. /\ at[j] \in Steps
        /\ \/ Proceed(j) /\ (at[j] = "queued" => Running(j))
           \/ Fail(j) /\ at[j] # "queued"
    BY <1>1 DEF Begin, Backup, ReadRows, Vacuum, ReadFiles, Save, Prepare,
         MoveOldDb, MoveOldAtts, MoveNewDb, MoveNewAtts, Check, Complete, Stage,
         Verify, Finalize, OpenDb, Commit, Close, Steps, Staging, Refuse
  <2> QED
    BY <2>1, TurnGoesOn, TurnFails DEF Proceed
<1>2. ASSUME NEW j \in Jobs, Notify(j) \/ Reconciled(j)
      PROVE  TurnInv'
  <2> DEFINE s == After(j)
  <2>1. /\ at[j] \in {"notify", "reconciling"} /\ at' = [at EXCEPT ![j] = s]
        /\ order' = order /\ queue'["shared"] = queue["shared"]
    BY <1>2 DEF Notify, Reconciled, NotifyLane, PathInv, Lanes
  <2>2. Kind[j] = "restore" /\ Holding(j) /\ Running(j) /\ at'[j] = s
    BY <2>1, KindAt DEF PathInv, Swapping
  <2>3. s \in {"reconciling", "complete"}
    BY <2>1, <2>2, RestorePath
  <2> HIDE DEF s
  <2>4. Lane(j) = "shared" /\ ~ToEnter(j)' /\ s \in Steps
    BY <2>2, <2>3, LanesAre DEF ToEnter, Steps, Staging
  <2> QED
    BY <2>1, <2>2, <2>4, StaysInLine DEF Lined
<1>3. ASSUME NEW j \in Jobs, Throw(j) PROVE TurnInv'
  <2>1. at[j] \in Steps \ {"queued"} /\ Fail(j)
    BY <1>3, Inputs DEF Throw
  <2> QED
    BY <2>1, TurnFails
<1>4. ASSUME Crash PROVE TurnInv'
  <2>1. /\ Lined' = << >> /\ order' = order /\ Gone' = Len(order)
    BY <1>4, LineFacts DEF Crash, Lined, Gone, Lanes
  <2>2. \A j \in Jobs : at'[j] = IF at[j] \in Ended \cup {"new"} THEN at[j] ELSE "killed"
    BY <1>4 DEF Crash
  <2>3. \A m \in 1..Len(order) : PlaceAt(m)'
    <3> SUFFICES ASSUME NEW m \in 1..Len(order) PROVE PlaceAt(m)'
      OBVIOUS
    <3>1. PlaceAt(m) /\ order[m] \in Jobs /\ m \in Nat /\ Len(order) \in Nat
      BY LineFacts DEF TurnInv
    <3> QED
      BY <2>1, <2>2, <3>1 DEF PlaceAt, ToEnter, Lane, Ended, Staging
  <2> QED
    BY <2>1, <2>3, LineFacts DEF TurnInv
<1>5. CASE UNCHANGED vars
  BY <1>5 DEF vars, TurnInv, Lined, Gone, PlaceAt, ToEnter, Lane, Staging
<1>6. ASSUME NEW j \in Jobs, Cleanup(j) PROVE TurnInv'
  BY <1>6, TurnCleansUp DEF Cleanup
<1>7. ASSUME NEW j \in Jobs, Look(j) PROVE TurnInv'
  <2>1. at[j] = "look" /\ (Proceed(j) \/ GoTo(j, "failed"))
    BY <1>7 DEF Look
  <2> QED
    BY <2>1, TurnGoesOn, TurnCleansUp DEF Proceed, Steps, Staging
<1> QED
  BY <1>1, <1>2, <1>3, <1>4, <1>5, <1>6, <1>7, TurnAsks DEF Next, Step, AddPhoto, Restore

-----------------------------------------------------------------------------
(* What a backup finds at its turn. *)

\* The package of the call has its snapshot.
Packed(j) == at[j] \in {"files", "save"} \/ j \in saved

\* While no restore was asked for, a snapshot has the photos of the calls that
\* entered before it and came back, and lacks those of the calls after it.
SnapAt(j) ==
  /\ package[j].rows \subseteq active.rows
  /\ \A k \in Jobs : Kind[k] \in Attaching =>
       /\ EnteredBefore(k, j) /\ at[k] = "done" => Photo[k] \in package[j].rows
       /\ EnteredBefore(j, k) /\ at[k] \in {"close", "done"} =>
            Photo[k] \notin package[j].rows

SnapInv == ~Restored => \A j \in Jobs : Packed(j) => SnapAt(j)

\* What a step does to a call k, as far as the snapshots can tell.
Seen(k) ==
  /\ at[k] \in Ended => at'[k] = at[k]
  /\ package'[k].rows = package[k].rows \/ at[k] = "vacuum"
  /\ k \in saved' => k \in saved \/ at[k] = "save"
  /\ at'[k] # at[k] =>
       /\ at'[k] = "close" => Photo[k] \notin active.rows
       /\ at'[k] = "done" /\ Kind[k] \in Attaching => at[k] = "close"
       /\ at'[k] = "files" => at[k] = "vacuum" /\ package'[k].rows = active.rows
       /\ at'[k] = "save" => at[k] = "files"
       /\ at[k] # "queued" \/ at'[k] \notin {"close", "done"}

\* While no restore was asked for, the root is in its place.
LEMMA NoRestore ==
  ASSUME NEW B, IInv({}, B), ~Restored
  PROVE  /\ Calm /\ active.rows \in SUBSET Photos /\ active.rows # NoFile
         /\ \A j \in Jobs : Opened(j) => conn[j] = "active"
         /\ \A k \in Jobs : Kind[k] \in Attaching /\ at[k] \in {"close", "done"} =>
              Photo[k] \in active.rows
         /\ \A j \in Jobs : at[j] \notin {"prepare"} \cup Swapping
<1>1. \A j \in Jobs : at[j] \notin {"prepare"} \cup Swapping
  BY KindAt DEF IInv, Restored, Swapping
<1>2. Calm
  BY <1>1 DEF Calm, Midway
<1>3. \A r \in saved : Kind[r] # "restore"
  BY DEF Restored, IInv, DataInv, DataTyped, PackInv, PackAt, Swapping, Ended
<1>4. KeptRows = active.rows /\ active.rows \in SUBSET Photos /\ active.rows # NoFile
  BY <1>2, CalmRoot DEF IInv
<1>5. \A k \in Jobs : Kind[k] \in Attaching /\ at[k] \in {"close", "done"} =>
        Photo[k] \in active.rows
  BY <1>3, <1>4 DEF IInv, DataInv, AckInv, AckAt
<1> QED
  BY <1>1, <1>2, <1>4, <1>5 DEF IInv, DataInv, ConnInv

\* Rows are only added, and each call is seen in the order of its steps.
LEMMA RowsGrow ==
  ASSUME NEW B, IInv({}, B), ~Restored, [Next]_vars
  PROVE  active.rows \subseteq active'.rows /\ \A k \in Jobs : Seen(k)
<1> DEFINE Good == active.rows \subseteq active'.rows /\ \A k \in Jobs : Seen(k)
<1>0. ASSUME NEW j \in Jobs, at' = [at EXCEPT ![j] = at'[j]],
             UNCHANGED <<package, saved>>,
             active.rows \subseteq active'.rows, at[j] \notin Ended,
             \/ at'[j] \notin {"close", "done", "files", "save"}
             \/ at[j] = "commit" /\ at'[j] = "close" /\ Photo[j] \notin active.rows
             \/ at[j] = "close" /\ at'[j] = "done"
             \/ at[j] = "files" /\ at'[j] = "save"
      PROVE  Good
  <2>1. \A k \in Jobs \ {j} : at'[k] = at[k]
    BY <1>0 DEF IInv, PathInv
  <2> QED
    BY <1>0, <2>1 DEF Seen
<1>1. ASSUME NEW j \in Jobs, at[j] \in Steps, Fail(j) PROVE Good
  <2>1. ~(Kind[j] = "restore" /\ at[j] \in Swapping)
    BY NoRestore
  <2>2. /\ at' = [at EXCEPT ![j] = "cleanup"] \/ at' = [at EXCEPT ![j] = "failed"]
        /\ UNCHANGED <<active, package, saved>>
    BY <1>1, <2>1 DEF Fail, roots, packs
  <2>3. at'[j] \in {"cleanup", "failed"} /\ at' = [at EXCEPT ![j] = at'[j]]
    BY <2>2 DEF IInv, PathInv
  <2>4. at[j] \notin Ended
    BY <1>1 DEF Steps, Ended, Staging
  <2> QED
    BY <1>0, <2>2, <2>3, <2>4
<1>2. ASSUME NEW j \in Jobs, Throw(j) PROVE Good
  BY <1>1, <1>2, Inputs DEF Throw
<1>3. ASSUME NEW j \in Jobs, Ask(j) PROVE Good
  <2>1. at'[j] \in {"look", "queued"}
    BY <1>3, Asks DEF IInv
  <2>2. /\ at' = [at EXCEPT ![j] = at'[j]] /\ UNCHANGED <<active, package, saved>>
        /\ at[j] = "new"
    BY <1>3 DEF Ask, GoTo, IInv, PathInv, roots, packs
  <2> QED
    BY <1>0, <2>1, <2>2 DEF Ended
<1>4. ASSUME NEW j \in Jobs, Begin(j) PROVE Good
  <2>1. /\ at[j] = "queued" /\ at' = [at EXCEPT ![j] = After(j)] /\ at'[j] = After(j)
        /\ UNCHANGED <<active, package, saved>>
    BY <1>4 DEF Begin, Proceed, GoTo, IInv, PathInv, roots, packs
  <2>2. After(j) \in {"open", "look", "rows", "prepare"}
    BY <2>1, BeginsAt DEF IInv
  <2> QED
    BY <1>0, <2>1, <2>2 DEF Ended
<1>5. ASSUME NEW j \in Jobs, AddPhoto(j) PROVE Good
  <2>1. CASE Fail(j) /\ at[j] \in Steps
    BY <1>1, <2>1
  <2>2. CASE Cleanup(j)
    <3>1. /\ at[j] = "cleanup" /\ at' = [at EXCEPT ![j] = "failed"] /\ at'[j] = "failed"
          /\ UNCHANGED <<package, saved>>
      BY <2>2 DEF Cleanup, GoTo, IInv, PathInv, packs
    <3>2. active'.rows = active.rows
      BY <2>2 DEF Cleanup, IInv, DataInv, DataTyped
    <3> QED
      BY <1>0, <3>1, <3>2 DEF Ended
  <2>3. CASE Look(j) /\ GoTo(j, "failed")
    <3>1. /\ at[j] = "look" /\ at' = [at EXCEPT ![j] = "failed"] /\ at'[j] = "failed"
          /\ UNCHANGED <<package, saved>>
      BY <2>3 DEF Look, GoTo, IInv, PathInv, packs
    <3>2. active'.rows = active.rows
      BY <2>3 DEF Look, IInv, DataInv, DataTyped
    <3> QED
      BY <1>0, <3>1, <3>2 DEF Ended
  <2>4. CASE ~Fail(j) /\ ~Cleanup(j) /\ ~(Look(j) /\ GoTo(j, "failed"))
    <3>1. /\ at[j] \in Staging \cup {"look", "open", "commit", "close"} /\ Proceed(j)
          /\ UNCHANGED <<package, saved>>
      <4>1. CASE Look(j) \/ Stage(j) \/ Verify(j) \/ Finalize(j)
        BY <2>4, <4>1 DEF Look, Stage, Verify, Finalize, Staging, Refuse, packs
      <4>2. CASE OpenDb(j) \/ Commit(j) \/ Close(j)
        BY <2>4, <4>2 DEF OpenDb, Commit, Close, Refuse, packs
      <4> QED
        BY <1>5, <2>4, <4>1, <4>2 DEF AddPhoto
    <3>2. at' = [at EXCEPT ![j] = After(j)] /\ at'[j] = After(j)
      BY <3>1 DEF Proceed, GoTo, IInv, PathInv
    <3>3. /\ at[j] = "look" => After(j) = "stage"
          /\ at[j] = "stage" => After(j) = "verify"
          /\ at[j] = "verify" => After(j) = "finalize"
          /\ at[j] = "finalize" => After(j) \in {"queued", "open", "commit"}
          /\ at[j] = "open" => After(j) \in {"look", "commit"}
          /\ at[j] = "commit" => After(j) = "close"
          /\ at[j] = "close" => After(j) = "done"
      BY <3>1, Adds
    <3>4. /\ active.rows \subseteq active'.rows
          /\ at[j] = "commit" => Photo[j] \notin active.rows
      <4>1. CASE Look(j) \/ Finalize(j)
        BY <2>4, <4>1 DEF Look, Finalize, Refuse, IInv, DataInv, DataTyped
      <4>2. CASE Stage(j) \/ Verify(j) \/ Close(j)
        BY <2>4, <4>2 DEF Stage, Verify, Close, Refuse, roots
      <4>3. CASE OpenDb(j)
        BY <2>4, <4>3, NoRestore DEF OpenDb, Refuse, IInv, DataInv, DataTyped
      <4>4. CASE Commit(j)
        <5>1. conn[j] = "active"
          BY <4>4, NoRestore DEF Commit, Opened
        <5> QED
          BY <2>4, <4>4, <5>1 DEF Commit, Refuse, IInv, DataInv, DataTyped
      <4> QED
        BY <1>5, <2>4, <4>1, <4>2, <4>3, <4>4 DEF AddPhoto
    <3>5. at[j] \notin Ended
      BY <3>1 DEF Ended, Staging
    <3>6. at[j] \in Staging => at[j] \in {"stage", "verify", "finalize"}
      BY DEF Staging
    <3> QED
      BY <1>0, <3>1, <3>2, <3>3, <3>4, <3>5, <3>6
  <2>5. Fail(j) => at[j] \in Steps \/ Cleanup(j)
    BY <1>5 DEF AddPhoto, Look, Stage, Verify, Finalize, OpenDb, Commit, Close, Steps,
         Staging
  <2> QED
    BY <2>1, <2>2, <2>3, <2>4, <2>5
<1>6. ASSUME NEW j \in Jobs, Backup(j) PROVE Good
  <2>1. CASE Fail(j)
    BY <1>1, <1>6, <2>1 DEF Backup, ReadRows, Vacuum, ReadFiles, Save, Steps,
       Staging
  <2>2. CASE ~Fail(j)
    <3>1. /\ at[j] \in {"rows", "vacuum", "files", "save"} /\ Proceed(j)
          /\ active' = active
      BY <1>6, <2>2 DEF Backup, ReadRows, Vacuum, ReadFiles, Save, Refuse, roots
    <3>2. /\ at' = [at EXCEPT ![j] = After(j)] /\ at'[j] = After(j)
          /\ \A k \in Jobs \ {j} : at'[k] = at[k]
      BY <3>1 DEF Proceed, GoTo, IInv, PathInv
    <3>3. /\ at[j] = "rows" => After(j) = "vacuum"
          /\ at[j] = "vacuum" => After(j) = "files"
          /\ at[j] = "files" => After(j) = "save"
          /\ at[j] = "save" => After(j) = "done"
          /\ Kind[j] \notin Attaching
      BY <3>1, PackingStep, KindAt DEF IInv, Restored, Attaching
    <3>4. /\ at[j] # "vacuum" => \A k \in Jobs : package'[k].rows = package[k].rows
          /\ at[j] = "vacuum" =>
               /\ package'[j].rows = active.rows
               /\ \A k \in Jobs \ {j} : package'[k] = package[k]
          /\ at[j] # "save" => saved' = saved
          /\ at[j] = "save" => saved' = saved \cup {j}
      <4>1. package \in [Jobs -> [rows : SUBSET Photos, files : SUBSET Photos]]
        BY DEF IInv, DataInv, DataTyped
      <4>2. CASE ReadRows(j)
        <5>1. /\ at[j] = "rows" /\ saved' = saved
              /\ package' = [package EXCEPT ![j].files = active.rows]
          BY <4>2 DEF ReadRows
        <5>2. \A k \in Jobs : package'[k].rows = package[k].rows
          BY <4>1, <5>1
        <5> QED
          BY <5>1, <5>2
      <4>3. CASE Vacuum(j)
        BY <4>1, <4>3 DEF Vacuum
      <4>4. CASE ReadFiles(j) \/ Save(j)
        BY <2>2, <4>4 DEF ReadFiles, Save, Refuse, packs
      <4> QED
        BY <1>6, <4>2, <4>3, <4>4 DEF Backup
    <3>5. at[j] \notin Ended
      BY <3>1 DEF Ended
    <3>6. Seen(j)
      <4>1. at[j] = "vacuum" => at'[j] = "files" /\ package'[j].rows = active.rows
        BY <3>2, <3>3, <3>4
      <4>2. at[j] # "vacuum" => package'[j].rows = package[j].rows
        BY <3>4
      <4>3. j \in saved' => j \in saved \/ at[j] = "save"
        BY <3>4
      <4>4. /\ at'[j] \in {"vacuum", "files", "save", "done"}
            /\ at'[j] = "files" => at[j] = "vacuum"
            /\ at'[j] = "save" => at[j] = "files"
        BY <3>1, <3>2, <3>3
      <4> QED
        BY <3>1, <3>3, <3>5, <4>1, <4>2, <4>3, <4>4 DEF Seen
    <3>7. \A k \in Jobs \ {j} : Seen(k)
      BY <3>2, <3>4 DEF Seen
    <3> QED
      BY <3>1, <3>6, <3>7
  <2> QED
    BY <2>1, <2>2
<1>7. ASSUME NEW j \in Jobs, Restore(j) PROVE Good
  <2>1. at[j] \in {"prepare"} \cup Swapping
    BY <1>7 DEF Restore, Prepare, MoveOldDb, MoveOldAtts, MoveNewDb, MoveNewAtts,
                Check, Notify, Reconciled, Complete, Swapping
  <2> QED
    BY <2>1, NoRestore
<1>8. CASE Crash
  BY <1>8 DEF Crash, Seen, Ended, roots, packs
<1>9. CASE UNCHANGED vars
  BY <1>9 DEF vars, Seen, roots, packs
<1> QED
  BY <1>2, <1>3, <1>4, <1>5, <1>6, <1>7, <1>8, <1>9 DEF Next, Step

\* Who enters the queue now is behind everybody.
LEMMA EntersLast ==
  ASSUME PathInv, Counts, [Next]_vars, NEW a \in Jobs, NEW b \in Jobs,
         EnteredBefore(a, b)'
  PROVE  EnteredBefore(a, b) \/ at'[b] = "queued"
<1>1. ASSUME NEW j \in Jobs, NEW s, GoTo(j, s)
      PROVE  order' = order \/ (order' = Append(order, j) /\ at'[j] = "queued")
  BY <1>1 DEF GoTo, Enqueue, PathInv
<1>2. ASSUME NEW j \in Jobs, Fail(j) PROVE order' = order
  BY <1>2 DEF Fail
<1>3. \/ order' = order
      \/ \E j \in Jobs : order' = Append(order, j) /\ at'[j] = "queued"
  <2>1. ASSUME NEW j \in Jobs, Begin(j) \/ AddPhoto(j)
        PROVE  order' = order \/ (order' = Append(order, j) /\ at'[j] = "queued")
    BY <1>1, <1>2, <2>1 DEF Begin, AddPhoto, Look, Stage, Verify, Finalize, OpenDb,
         Commit, Close, Cleanup, Proceed, Refuse
  <2>2. ASSUME NEW j \in Jobs, Backup(j) \/ Restore(j)
        PROVE  order' = order \/ (order' = Append(order, j) /\ at'[j] = "queued")
    BY <1>1, <1>2, <2>2 DEF Backup, ReadRows, Vacuum, ReadFiles, Save, Restore, Prepare,
         MoveOldDb, MoveOldAtts, MoveNewDb, MoveNewAtts, Check, Notify, Reconciled,
         Complete, Proceed, Refuse
  <2>3. ASSUME NEW j \in Jobs, Ask(j) \/ Throw(j)
        PROVE  order' = order \/ (order' = Append(order, j) /\ at'[j] = "queued")
    BY <1>1, <1>2, <2>3 DEF Ask, Throw
  <2>4. CASE Crash \/ UNCHANGED vars
    BY <2>4 DEF Crash, vars
  <2> QED
    BY <2>1, <2>2, <2>3, <2>4 DEF Next, Step
<1>4. CASE order' = order
  BY <1>4 DEF EnteredBefore
<1>5. ASSUME NEW j \in Jobs, order' = Append(order, j), at'[j] = "queued"
      PROVE  EnteredBefore(a, b) \/ at'[b] = "queued"
  <2>1. PICK m, n \in DOMAIN order' : m < n /\ order'[m] = a /\ order'[n] = b
    BY DEF EnteredBefore
  <2>2. /\ order \in Seq(Jobs) /\ DOMAIN order' = 1..(Len(order) + 1)
        /\ DOMAIN order = 1..Len(order) /\ Len(order) \in Nat
        /\ \A i \in 1..Len(order) : order'[i] = order[i]
        /\ order'[Len(order) + 1] = j
    BY <1>5, AppendProperties DEF Counts
  <2>3. CASE n = Len(order) + 1
    BY <1>5, <2>1, <2>2, <2>3
  <2>4. CASE n # Len(order) + 1
    <3>1. m \in DOMAIN order /\ n \in DOMAIN order
      BY <2>1, <2>2, <2>4
    <3> QED
      BY <2>1, <2>2, <3>1 DEF EnteredBefore
  <2> QED
    BY <2>3, <2>4
<1> QED
  BY <1>3, <1>4, <1>5

\* A call before one that left or runs is over; one after it has not begun,
\* or has only since it left.
LEMMA BeforeAndAfter ==
  ASSUME PathInv, Counts, TurnInv, NEW j \in Jobs, NEW k \in Jobs
  PROVE  /\ EnteredBefore(k, j) /\ at[j] # "queued" => at[k] \in Ended \cup {"cleanup"}
         /\ EnteredBefore(j, k) /\ at[j] = "vacuum" => at[k] = "queued"
<1>1. ASSUME NEW m \in DOMAIN order, NEW n \in DOMAIN order, m < n
      PROVE  /\ m \in Nat /\ n \in Nat /\ Gone \in Nat
             /\ PlaceAt(m) /\ PlaceAt(n)
  BY LineFacts DEF TurnInv
<1>2. ASSUME EnteredBefore(k, j), at[j] # "queued"
      PROVE  at[k] \in Ended \cup {"cleanup"}
  <2>1. PICK m, n \in DOMAIN order : m < n /\ order[m] = k /\ order[n] = j
    BY <1>2 DEF EnteredBefore
  <2> QED
    BY <1>1, <1>2, <2>1 DEF PlaceAt
<1>3. ASSUME EnteredBefore(j, k), at[j] = "vacuum"
      PROVE  at[k] = "queued"
  <2>1. PICK m, n \in DOMAIN order : m < n /\ order[m] = j /\ order[n] = k
    BY <1>3 DEF EnteredBefore
  <2> QED
    BY <1>1, <1>3, <2>1 DEF PlaceAt, Ended
<1> QED
  BY <1>2, <1>3


\* A call that was asked for stays asked for.
LEMMA AskedStays ==
  ASSUME PathInv, [Next]_vars, NEW k \in Jobs, at'[k] = "new"
  PROVE  at[k] = "new"
<1>1. ASSUME NEW j \in Jobs, NEW s, at' = [at EXCEPT ![j] = s], s # "new"
      PROVE  at[k] = "new"
  BY <1>1 DEF PathInv
<1>2. ASSUME NEW j \in Jobs, Fail(j) PROVE at[k] = "new"
  BY <1>1, <1>2 DEF Fail
<1>3. ASSUME NEW j \in Jobs, at[j] \in Steps, at' = [at EXCEPT ![j] = After(j)]
      PROVE  at[k] = "new"
  <2>1. OnPath(j)
    BY DEF PathInv
  <2>2. After(j) # "new"
    <3>1. CASE Kind[j] = "agenda"
      BY <1>3, <2>1, <3>1, AgendaPath
         DEF OnPath, Attaching, AddingSteps, Outside, Ended, Steps, Staging
    <3>2. CASE Kind[j] = "evidence"
      BY <1>3, <2>1, <3>2, EvidencePath
         DEF OnPath, Attaching, AddingSteps, Outside, Ended, Steps, Staging
    <3>3. CASE Kind[j] = "inventory"
      BY <1>3, <2>1, <3>3, InventoryPath
         DEF OnPath, Attaching, AddingSteps, Outside, Ended, Steps, Staging
    <3>4. CASE Kind[j] = "backup"
      BY <1>3, <2>1, <3>4, BackupPath DEF OnPath, PackingSteps, Outside, Ended, Steps,
       Staging
    <3>5. CASE Kind[j] = "restore"
      BY <1>3, <2>1, <3>5, RestorePath
         DEF OnPath, PackingSteps, Swapping, Outside, Ended, Steps, Staging
    <3> QED
      BY <3>1, <3>2, <3>3, <3>4, <3>5, KindsAre
  <2> QED
    BY <1>1, <1>3, <2>2
<1>4. ASSUME NEW j \in Jobs, Begin(j) \/ AddPhoto(j) \/ Backup(j) \/ Restore(j)
      PROVE  at[k] = "new"
  <2>1. \/ Fail(j) \/ at' = [at EXCEPT ![j] = "failed"]
        \/ at[j] \in Steps /\ at' = [at EXCEPT ![j] = After(j)]
    BY <1>4 DEF Begin, AddPhoto, Look, Stage, Verify, Finalize, OpenDb, Commit,
         Close, Cleanup, Backup, ReadRows, Vacuum, ReadFiles, Save, Restore, Prepare, MoveOldDb,
         MoveOldAtts, MoveNewDb, MoveNewAtts, Check, Notify, Reconciled, Complete,
         Proceed, Refuse, GoTo, Steps, Staging
  <2> QED
    BY <1>1, <1>2, <1>3, <2>1
<1>5. ASSUME NEW j \in Jobs, Ask(j) PROVE at[k] = "new"
  BY <1>1, <1>5, Asks DEF Ask, GoTo, PathInv
<1>6. ASSUME NEW j \in Jobs, Throw(j) PROVE at[k] = "new"
  BY <1>2, <1>6 DEF Throw
<1>7. CASE Crash \/ UNCHANGED vars
  BY <1>7 DEF Crash, vars
<1> QED
  BY <1>4, <1>5, <1>6, <1>7 DEF Next, Step

\* Who has met a restore or a backup knows it was asked for.
MetAsked == \A q \in met : at[q[1]] # "new"

\* What has met stays met.
LEMMA MetAskedStep ==
  ASSUME PathInv, Counts, MetAsked, [Next]_vars
  PROVE  MetAsked'
<1> SUFFICES ASSUME NEW q \in met', at'[q[1]] = "new" PROVE FALSE
  BY DEF MetAsked
<1>1. q \in met \/ (q \in Jobs \X Jobs /\ Meets(q[1], q[2])')
  BY Meetings DEF Meeting, vars
<1>2. CASE q \in met
  <2>1. q[1] \in Jobs
    BY <1>2 DEF Counts
  <2>2. at[q[1]] = "new"
    BY <2>1, AskedStays
  <2> QED
    BY <1>2, <2>2 DEF MetAsked
<1>3. CASE Meets(q[1], q[2])'
  BY <1>3 DEF Meets, Holds, UnderWay
<1> QED
  BY <1>1, <1>2, <1>3

\* While no restore was asked for, none has overtaken a call.
LEMMA NoneOvertaken ==
  ASSUME Counts, MetAsked, ~Restored
  PROVE  Overtaken = {}
<1>1. \A q \in met : q[1] \in Jobs /\ Kind[q[1]] # "restore"
  BY DEF Counts, MetAsked, Restored
<1> QED
  BY <1>1 DEF Overtaken

\* Every snapshot stays what it was at the turn of its backup.
LEMMA SnapStep ==
  ASSUME Inv, Inv', Counts, Counts', MetAsked, MetAsked', TurnInv, SnapInv, [Next]_vars
  PROVE  SnapInv'
<1> SUFFICES ASSUME ~Restored', NEW j \in Jobs, Packed(j)' PROVE SnapAt(j)'
  BY DEF SnapInv
<1>0. PathInv
  BY DEF Inv, IInv
<1>1. ~Restored
  BY <1>0, AskedStays DEF Restored
<1> PICK B : IInv({}, B)
  <2>1. Overtaken = {}
    BY <1>1, NoneOvertaken
  <2>2. PICK X, B : X = Overtaken /\ IInv(X, B)
    BY DEF Inv
  <2>3. X = {}
    BY <2>1, <2>2
  <2> QED
    BY <2>2, <2>3
<1> PICK C : IInv({}, C)'
  <2>1. Overtaken' = {}
    <3>1. \A q \in met' : q[1] \in Jobs /\ Kind[q[1]] # "restore"
      BY DEF Counts, MetAsked, Restored
    <3> QED
      BY <3>1 DEF Overtaken
  <2>2. PICK X, C : X = Overtaken' /\ IInv(X, C)'
    BY DEF Inv
  <2>3. X = {}
    BY <2>1, <2>2
  <2> QED
    BY <2>2, <2>3
<1>2. /\ active.rows \subseteq active'.rows /\ Seen(j) /\ \A k \in Jobs : Seen(k)
  BY <1>1, RowsGrow
<1>3. at'[j] # "queued"
  BY DEF Packed, IInv, DataInv, PackInv, PackAt, Swapping, Ended
<1>4. \/ at[j] = "vacuum" /\ package'[j].rows = active.rows
      \/ /\ Packed(j) /\ at[j] # "queued" /\ SnapAt(j)
         /\ package'[j].rows = package[j].rows
  <2>1. at'[j] \in {"files", "save"} \/ j \in saved'
    BY DEF Packed
  <2>2. (at[j] = "vacuum" /\ package'[j].rows = active.rows) \/ Packed(j)
    BY <1>2, <1>3, <2>1 DEF Seen, Packed
  <2>3. Packed(j) => at[j] \in {"files", "save"} \cup Swapping \cup Ended
    BY DEF Packed, IInv, DataInv, PackInv, PackAt
  <2>4. Packed(j) => at[j] \notin {"queued", "vacuum"}
    BY <2>3 DEF Swapping, Ended
  <2> QED
    BY <1>1, <1>2, <2>2, <2>4 DEF Seen, SnapInv
<1>5. package'[j].rows \subseteq active'.rows
  BY <1>2, <1>4 DEF SnapAt
<1>6. ASSUME NEW k \in Jobs, Kind[k] \in Attaching, EnteredBefore(k, j)', at'[k] = "done"
      PROVE  Photo[k] \in package'[j].rows
  <2>1. EnteredBefore(k, j) /\ at[j] # "queued"
    BY <1>0, <1>3, <1>4, <1>6, EntersLast
  <2>2. at[k] \in Ended \cup {"cleanup"}
    BY <2>1, BeforeAndAfter, <1>0
  <2>3. at[k] = "done"
    BY <1>2, <1>6, <2>2 DEF Seen
  <2>4. Photo[k] \in active.rows
    BY <1>1, <1>6, <2>3, NoRestore
  <2> QED
    BY <1>4, <1>6, <2>1, <2>3, <2>4 DEF SnapAt
<1>7. ASSUME NEW k \in Jobs, Kind[k] \in Attaching, EnteredBefore(j, k)',
             at'[k] \in {"close", "done"}
      PROVE  Photo[k] \notin package'[j].rows
  <2>1. EnteredBefore(j, k)
    BY <1>0, <1>7, EntersLast
  <2>2. Seen(k)
    BY <1>2
  <2>3. CASE at[j] = "vacuum"
    <3>1. at[k] = "queued"
      BY <2>1, <2>3, BeforeAndAfter, <1>0
    <3> QED
      BY <1>7, <2>2, <3>1 DEF Seen
  <2>4. CASE SnapAt(j) /\ package'[j].rows = package[j].rows
    <3>1. CASE at[k] \in {"close", "done"}
      BY <1>7, <2>1, <2>4, <3>1 DEF SnapAt
    <3>2. CASE at[k] \notin {"close", "done"}
      <4>1. Photo[k] \notin active.rows
        BY <1>7, <2>2, <3>2 DEF Seen
      <4> QED
        BY <2>4, <4>1 DEF SnapAt
    <3> QED
      BY <3>1, <3>2
  <2> QED
    BY <1>4, <2>3, <2>4
<1> QED
  BY <1>5, <1>6, <1>7 DEF SnapAt

\* A backup has the photos of the calls that entered the shared queue before it
\* and came back, and none of the calls that entered after it, for any number of
\* calls that may throw or die.  (_enqueue, createBackup)
THEOREM SnapshotsAtTheirTurn == CloseReturns /\ Spec => []SnapshotAtItsTurn
<1>1. Init => Counts /\ TurnInv
  <2> SUFFICES ASSUME Init PROVE Counts /\ TurnInv
    OBVIOUS
  <2>1. order = << >> /\ Lined = << >> /\ Counts
    BY Inputs DEF Init, Lined, Lanes, Counts
  <2> QED
    BY <2>1 DEF TurnInv, Gone
<1>2. Init => SnapInv /\ MetAsked
  BY DEF Init, SnapInv, Packed, MetAsked
<1>3. Inv /\ Counts /\ TurnInv /\ MetAsked /\ [Next]_vars => TurnInv' /\ MetAsked'
  BY TurnStep, MetAskedStep DEF Inv, IInv
<1>4. /\ Inv /\ Inv' /\ Counts /\ Counts' /\ MetAsked /\ MetAsked'
      /\ TurnInv /\ SnapInv /\ [Next]_vars
      => SnapInv'
  BY SnapStep
<1>5. Inv /\ SnapInv => SnapshotAtItsTurn
  <2> SUFFICES ASSUME Inv, SnapInv, NEW j \in saved, NEW k \in Jobs,
                      Kind[k] \in Attaching, at[k] = "done", ~Restored
               PROVE  /\ EnteredBefore(k, j) => Photo[k] \in package[j].rows
                      /\ EnteredBefore(j, k) => Photo[k] \notin package[j].rows
    BY DEF SnapshotAtItsTurn
  <2>1. j \in Jobs /\ Packed(j)
    BY DEF Inv, IInv, DataInv, DataTyped, Packed
  <2> QED
    BY <2>1 DEF SnapInv, SnapAt
<1> QED
  BY <1>1, <1>2, <1>3, <1>4, <1>5, Counted, Inductive, PTL DEF Spec

=============================================================================
