--------------------------- MODULE CodexTurnsProofs ---------------------------
(***************************************************************************)
(* One agent and its app-server, for any number of messages, threads,      *)
(* stops, deaths and restarts: a turn begins only on an idle thread that   *)
(* holds what the memory holds, an answer is kept with its question, a     *)
(* tool call is answered once.                                             *)
(*                                                                         *)
(* The argument: a thread that still owes the client something, a turn     *)
(* that runs or notifications nobody has read, holds a message of the user *)
(* that the memory holds without its end, or with the notice of its        *)
(* interruption; so the comparison of the two finds it out of step, and    *)
(* the thread is left before anything of it can be taken for the answer to *)
(* a later message.                                                        *)
(***************************************************************************)
EXTENDS CodexTurns, FiniteSetTheorems, WellFoundedInduction, TLAPS

-----------------------------------------------------------------------------
(* The invariant *)

Up == SetOf(toServer)
Down == SetOf(toClient)
Users == {"user"} \X Messages

Notes == {"tool", "call", "message", "completed", "failed", "native", "suppressed"}
Final == {"completed", "failed"}
Writing == {"inject", "starting"}
InTurn == {"starting", "running", "stopping", "draining"}
Turning == InTurn \cup {"abandoning"}

UpMsg == [t : Requesting \cup {"stopping", "abandoning", "reply"}, h : Threads \cup {0},
          k : Messages, set : SUBSET Item, base : SUBSET Item]
AnswerMsg == [t : {"ok", "err"}, to : Requesting, h : Threads \cup {0}, k : Messages]
NoteMsg == [t : Notes, to : {""}, h : Threads, k : Messages]
DownMsg == AnswerMsg \cup NoteMsg

PipesOK == toServer \in Seq(UpMsg) /\ toClient \in Seq(DownMsg)

\* While llm() runs the memory ends with the message it is asked to answer.
IdsKnown ==
    /\ \A i \in DOMAIN memory : memory[i][2] <= sent
    /\ \A i \in DOMAIN onDisk : onDisk[i][2] <= sent
AtQuestion == pc # "idle" =>
    /\ memory # <<>> /\ memory[Len(memory)] = <<"user", sent>>
    /\ \A i \in DOMAIN memory : i # Len(memory) => memory[i][2] < sent

\* Behind a question there are no answers to earlier ones.
AnswersOwn(m) ==
    \A i \in DOMAIN m : \A j \in DOMAIN m :
        j < i /\ m[i][1] # "user" /\ m[j][1] = "user" => m[j][2] <= m[i][2]
MemoryOwn == AnswersOwn(memory) /\ AnswersOwn(onDisk)

\* What is collected is of the turn it is collected for.
StreamOwn ==
    /\ \A i \in DOMAIN stream.turns : stream.turns[i][1] # "user" /\ stream.turns[i][2] = stream.for
    /\ held.turn = held.for
StreamNow == pc \in InTurn => stream.for = sent

\* The thread in use is the one saved; threads come one after the other.
ThreadKnown ==
    /\ thread \in {0, saved} /\ handlers \subseteq {thread} \ {0}
    /\ pc \in Turning \cup {"inject"} => saved # 0 /\ thread = saved /\ saved \in handlers
    /\ pc = "resume" => saved # 0
    /\ saved <= created
    /\ \A h \in Threads : items[h] # {} => h <= saved
ThreadsNamed ==
    /\ \A m \in Up : m.t \notin {"fresh", "reply"} => m.h # 0 /\ m.h <= saved
    /\ \A n \in Down : n.t = "ok" /\ n.to = "fresh" =>
        n.h # 0 /\ n.h <= created /\ (pc = "fresh" /\ n.k = sent => n.h > saved)
    /\ pc = "fresh" /\ got = "ok" => newThread > saved /\ newThread <= created

\* The kinds of request llm() may have made once it is suspended at p.
Past(p) ==
    CASE p = "ask" -> {}
      [] p = "resume" -> {"resume"}
      [] p = "fresh" -> {"resume", "fresh"}
      [] p = "inject" -> {"resume", "fresh", "inject"}
      [] OTHER -> Requesting
PastOnly ==
    /\ \A m \in Up : m.t \in Requesting =>
        m.k <= sent /\ (m.k = sent /\ pc # "idle" => m.t \in Past(pc))
    /\ \A n \in Down : n.to \in Requesting =>
        n.k <= sent /\ (n.k = sent /\ pc # "idle" => n.to \in Past(pc))

\* The server answers in order: once the request awaited is answered, it has
\* taken every request made before.
Replied == got # "none" \/ \E n \in Down : n.to = pc /\ n.k = sent
OneWrite(s) == \A i, j \in DOMAIN s : s[i].t \in Writing /\ s[j].t \in Writing => i = j
LastAsked(s, p, k) == \A i, j \in DOMAIN s :
    s[i].t = p /\ s[i].k = k /\ i < j => s[j].t \notin Requesting
OneAnswer(s, p, k) == \A i, j \in DOMAIN s :
    s[i].to = p /\ s[i].k = k /\ s[j].to = p /\ s[j].k = k => i = j
Answered ==
    /\ got # "none" => pc \in Requesting /\ \A n \in Down : ~(n.to = pc /\ n.k = sent)
    /\ pc \in Requesting =>
        /\ LastAsked(toServer, pc, sent)
        /\ OneAnswer(toClient, pc, sent)
        /\ Replied => \A m \in Up : m.t \notin Requesting

\* A thread owes the client turn k: it was sent, it runs, or something of it
\* has not been read.
NoteOf(h, k) == \E n \in Down : n.t \in Notes /\ n.h = h /\ n.k = k
Started(h, k) == k \in live[h] \/ NoteOf(h, k)
StartSent(h, k) == \E m \in Up : m.t = "starting" /\ m.h = h /\ m.k = k
Owed(h, k) == Started(h, k) \/ StartSent(h, k)
Quiet(h) == \A k \in Messages : ~Owed(h, k)

OwedKnown == \A h \in Threads, k \in Messages : Owed(h, k) =>
    /\ k <= sent /\ (k = sent /\ pc # "idle" => pc \in Turning)
    /\ <<"notice", k>> \notin items[h]
OwedOnce == \A h, g \in Threads, k \in Messages : Owed(h, k) /\ Owed(g, k) => g = h
StartedKnown == \A h \in Threads, k \in Messages : Started(h, k) =>
    <<"user", k>> \in items[h] /\ \A j \in Messages : ~StartSent(h, j)
OneLive == \A h \in Threads : \A k, j \in live[h] : k = j

FinalLast(s) == \A i, j \in DOMAIN s :
    s[i].t \in Final /\ i < j /\ s[j].t \in Notes => s[j].h # s[i].h \/ s[j].k # s[i].k
Ended == FinalLast(toClient) /\ \A n \in Down : n.t \in Final => n.k \notin live[n.h]

\* What the server is about to write is what the client means it to hold.
StartMeant == \A m \in Up : m.t = "starting" =>
    <<"user", m.k>> \in m.set /\ m.set \subseteq Users /\ items[m.h] = m.base
InjectMeant ==
    /\ \A m \in Up : m.t = "inject" => Quiet(m.h)
    /\ pc = "inject" =>
        /\ Quiet(saved)
        /\ \A m \in Up : m.t = "inject" =>
            m.h = saved /\ m.set = SetOf(Stable(memory)) /\ items[saved] = {}
        /\ got = "ok" \/ (\E n \in Down : n.t = "ok" /\ n.to = "inject" /\ n.k = sent)
            => items[saved] = SetOf(Stable(memory))

\* A turn the saved thread owes: the memory has nothing behind its message, or
\* the notice of its interruption.
Open(m, k) == \A i \in DOMAIN m : m[i] = <<"user", k>> =>
    \/ \A j \in DOMAIN m : j > i => m[j][1] = "user"
    \/ \E j \in DOMAIN m : j > i /\ m[j] = <<"notice", k>>
OwedOpen == saved # 0 => \A k \in Messages : Owed(saved, k) => Open(memory, k)
OwedStream == saved \in handlers =>
    /\ stream.for # 0 => \A k \in Messages : Owed(saved, k) => k = stream.for
    /\ stream.result # "none" => Quiet(saved)

\* The call of a turn is in one place: with the client, in a task, in an answer.
ReplySent(k) == \E m \in Up : m.t = "reply" /\ m.k = k
CallSent(k) == \E n \in Down : n.t = "tool" /\ n.k = k
Called(k) == replies[k] > 0 \/ ReplySent(k) \/ k \in tools \/ CallSent(k)
OneReply(s) == \A i, j \in DOMAIN s :
    s[i].t = "reply" /\ s[j].t = "reply" /\ s[i].k = s[j].k => i = j
OneCall(s) == \A i, j \in DOMAIN s :
    s[i].t = "tool" /\ s[j].t = "tool" /\ s[i].k = s[j].k => i = j
CallOnce ==
    /\ OneReply(toServer) /\ OneCall(toClient)
    /\ \A k \in Messages :
        /\ replies[k] <= 1
        /\ replies[k] > 0 => ~ReplySent(k) /\ k \notin tools /\ ~CallSent(k)
        /\ ReplySent(k) => k \notin tools /\ ~CallSent(k)
        /\ k \in tools => ~CallSent(k)
CallKnown ==
    /\ \A k \in Messages : Called(k) => k <= sent /\ (k = sent /\ pc # "idle" => pc \in Turning)
    /\ \A h \in Threads, k \in Messages : Called(k) =>
        /\ ~StartSent(h, k)
        /\ k \in live[h] => k \in asked \/ <<"call", k>> \in items[h]
    /\ \A k \in asked : \E h \in Threads : k \in live[h]

IInv ==
    /\ TypeOK /\ PipesOK
    /\ IdsKnown /\ AtQuestion /\ MemoryOwn /\ StreamOwn /\ StreamNow
    /\ ThreadKnown /\ ThreadsNamed
    /\ PastOnly /\ OneWrite(toServer) /\ Answered
    /\ OwedKnown /\ OwedOnce /\ StartedKnown /\ OneLive /\ Ended
    /\ strayed = {} /\ StartMeant /\ InjectMeant /\ OwedOpen /\ OwedStream
    /\ CallOnce /\ CallKnown

-----------------------------------------------------------------------------
(* Sequences *)

\* A set of numbers has a least one.
LEMMA LeastNumber ==
    ASSUME NEW T, T \subseteq Nat, T # {}
    PROVE  \E x \in T : \A y \in T : x <= y
<1> DEFINE I == {1..n : n \in T}
<1>1. I \subseteq FiniteSubsetsOf(Nat)
  <2>1. \A n \in T : IsFiniteSet(1..n)
    BY FS_Interval
  <2> QED BY <2>1 DEF FiniteSubsetsOf
<1>2. I # {}
  OBVIOUS
<1>3. IsWellFoundedOn(StrictSubsetOrdering(Nat), FiniteSubsetsOf(Nat))
  BY FS_StrictSubsetOrderingWellFounded
<1>4. \E s \in I : \A t \in I : ~(<<t, s>> \in StrictSubsetOrdering(Nat))
  BY <1>1, <1>2, <1>3, WFMin
<1>5. PICK x \in T : \A t \in I : ~(<<t, 1..x>> \in StrictSubsetOrdering(Nat))
  BY <1>4
<1>6. ASSUME NEW y \in T, y < x PROVE FALSE
  <2>1. 1..y \subseteq 1..x /\ x \in 1..x /\ x \notin 1..y /\ 1..x \subseteq Nat
    BY <1>6
  <2>2. <<1..y, 1..x>> \in StrictSubsetOrdering(Nat)
    BY <2>1 DEF StrictSubsetOrdering
  <2> QED BY <2>2, <1>5
<1> QED BY <1>6

\* A memory has one stable part: what follows it is the user's, its last turn is not.
LEMMA StableSplit ==
    ASSUME NEW m \in Seq(Item)
    PROVE  /\ StableLength(m) \in 0..Len(m)
           /\ \A i \in (StableLength(m) + 1)..Len(m) : m[i][1] = "user"
           /\ StableLength(m) > 0 => m[StableLength(m)][1] # "user"
<1> DEFINE T == {n \in 0..Len(m) : \A i \in (n + 1)..Len(m) : m[i][1] = "user"}
<1>1. Len(m) \in Nat /\ Len(m) \in T /\ T \subseteq Nat
  OBVIOUS
<1>2. PICK n \in T : \A y \in T : n <= y
  BY <1>1, LeastNumber
<1>3. ASSUME n > 0, m[n][1] = "user" PROVE FALSE
  <2>1. n - 1 \in 0..Len(m) /\ \A i \in n..Len(m) : i = n \/ i \in (n + 1)..Len(m)
    BY <1>1, <1>2, <1>3
  <2>2. n - 1 \in T
    BY <1>2, <1>3, <2>1
  <2>3. n <= n - 1 /\ n \in Nat
    BY <1>1, <1>2, <2>2
  <2> HIDE DEF T
  <2> QED BY <2>3
<1>4. \E k \in 0..Len(m) : /\ \A i \in (k + 1)..Len(m) : m[i][1] = "user"
                           /\ k > 0 => m[k][1] # "user"
  BY <1>2, <1>3
<1> HIDE DEF T
<1> QED BY <1>4 DEF StableLength

\* The two parts of a memory.
LEMMA StableParts ==
    ASSUME NEW m \in Seq(Item)
    PROVE  /\ Stable(m) \in Seq(Item) /\ Pending(m) \in Seq(Item)
           /\ SetOf(Stable(m)) \in SUBSET Item /\ SetOf(Pending(m)) \subseteq Users
           /\ \A i \in 1..StableLength(m) : m[i] \in SetOf(Stable(m))
           /\ \A x \in SetOf(Stable(m)) : \E i \in 1..StableLength(m) : x = m[i]
           /\ \A i \in (StableLength(m) + 1)..Len(m) : m[i] \in SetOf(Pending(m))
           /\ Stable(m) = <<>> => SetOf(Stable(m)) = {}
<1> DEFINE n == StableLength(m)
<1>1. n \in 0..Len(m) /\ Len(m) \in Nat /\ \A i \in (n + 1)..Len(m) : m[i][1] = "user"
  BY StableSplit
<1> HIDE DEF n
<1>2. /\ SubSeq(m, 1, n) \in Seq(Item) /\ DOMAIN SubSeq(m, 1, n) = 1..n
      /\ \A i \in 1..n : SubSeq(m, 1, n)[i] = m[i]
  BY <1>1
<1>3. /\ SubSeq(m, n + 1, Len(m)) \in Seq(Item) /\ DOMAIN SubSeq(m, n + 1, Len(m)) = 1..(Len(m) - n)
      /\ \A i \in 1..(Len(m) - n) : SubSeq(m, n + 1, Len(m))[i] = m[i + n]
  BY <1>1
<1>4. Stable(m) = SubSeq(m, 1, n) /\ Pending(m) = SubSeq(m, n + 1, Len(m))
  BY DEF Stable, Pending, n
<1>5. \A i \in 1..Len(m) : m[i] \in Item
  OBVIOUS
<1>6. SetOf(Stable(m)) = {m[i] : i \in 1..n}
  BY <1>2, <1>4 DEF SetOf
<1>7. SetOf(Stable(m)) \in SUBSET Item
  BY <1>1, <1>5, <1>6
<1>8. \A i \in (n + 1)..Len(m) : m[i] \in SetOf(Pending(m))
  <2> SUFFICES ASSUME NEW i \in (n + 1)..Len(m) PROVE m[i] \in SetOf(Pending(m))
    OBVIOUS
  <2>1. i - n \in 1..(Len(m) - n) /\ (i - n) + n = i
    BY <1>1
  <2> QED BY <1>3, <1>4, <2>1 DEF SetOf
<1>9. \A x \in SetOf(Pending(m)) : \E i \in (n + 1)..Len(m) : x = m[i]
  <2> SUFFICES ASSUME NEW j \in 1..(Len(m) - n)
               PROVE  j + n \in (n + 1)..Len(m)
    BY <1>3, <1>4 DEF SetOf
  <2> QED BY <1>1
<1>10. SetOf(Pending(m)) \subseteq Users
  <2> SUFFICES ASSUME NEW i \in (n + 1)..Len(m) PROVE m[i] \in Users
    BY <1>9
  <2>1. m[i] \in Item /\ m[i][1] = "user"
    BY <1>1
  <2> QED BY <2>1 DEF Item, Users
<1>11. Stable(m) = <<>> => n = 0
  BY <1>1, <1>2, <1>4
<1> QED BY <1>1, <1>2, <1>3, <1>4, <1>6, <1>7, <1>8, <1>10, <1>11 DEF n

\* The first message is read.
LEMMA Popped ==
    ASSUME NEW S, NEW s \in Seq(S), s # <<>>
    PROVE  /\ Tail(s) \in Seq(S) /\ Head(s) \in S /\ Head(s) \in SetOf(s)
           /\ SetOf(Tail(s)) \subseteq SetOf(s)
           /\ 1 \in DOMAIN s /\ Head(s) = s[1]
           /\ \A i \in DOMAIN Tail(s) : i \in Nat /\ i + 1 \in DOMAIN s /\ 1 < i + 1 /\ i + 1 # 1
                                        /\ Tail(s)[i] = s[i + 1]
<1>1. /\ Tail(s) \in Seq(S) /\ 1 \in DOMAIN s /\ Head(s) = s[1] /\ s[1] \in S
      /\ DOMAIN s = 1..Len(s) /\ Len(s) \in Nat /\ DOMAIN Tail(s) = 1..(Len(s) - 1)
  OBVIOUS
<1>2. \A i \in DOMAIN Tail(s) : i \in Nat /\ i + 1 \in DOMAIN s /\ 1 < i + 1 /\ i + 1 # 1
                                 /\ Tail(s)[i] = s[i + 1]
  BY <1>1
<1>3. SetOf(Tail(s)) \subseteq SetOf(s)
  BY <1>2 DEF SetOf
<1> QED BY <1>1, <1>2, <1>3 DEF SetOf

\* One is written.
LEMMA Pushed ==
    ASSUME NEW S, NEW s \in Seq(S), NEW m \in S
    PROVE  /\ Append(s, m) \in Seq(S) /\ SetOf(Append(s, m)) = SetOf(s) \cup {m}
           /\ Len(s) \in Nat /\ Len(s) + 1 \in DOMAIN Append(s, m) /\ Append(s, m)[Len(s) + 1] = m
           /\ \A i \in DOMAIN s : i \in Nat /\ i < Len(s) + 1 /\ i \in DOMAIN Append(s, m)
                                  /\ Append(s, m)[i] = s[i] /\ s[i] \in SetOf(s)
           /\ \A i \in DOMAIN Append(s, m) : i \in DOMAIN s \/ i = Len(s) + 1
<1> DEFINE a == Append(s, m)
<1>1. /\ a \in Seq(S) /\ DOMAIN s = 1..Len(s) /\ Len(s) \in Nat
      /\ DOMAIN a = 1..(Len(s) + 1) /\ a[Len(s) + 1] = m
      /\ \A i \in DOMAIN s : a[i] = s[i]
  OBVIOUS
<1>2. /\ \A i \in DOMAIN s : i \in Nat /\ i < Len(s) + 1 /\ i \in DOMAIN a /\ a[i] = s[i]
      /\ \A i \in DOMAIN a : i \in DOMAIN s \/ i = Len(s) + 1
      /\ Len(s) + 1 \in DOMAIN a
  BY <1>1
<1> HIDE DEF a
<1>3. SetOf(a) = SetOf(s) \cup {m}
  BY <1>1, <1>2 DEF SetOf
<1> QED BY <1>1, <1>2, <1>3 DEF a, SetOf

-----------------------------------------------------------------------------
(* What steps do *)

\* llm() runs on the newest message.
LEMMA AtHand ==
    ASSUME IInv, pc # "idle"
    PROVE  /\ sent \in Messages /\ sent \in Nat /\ Newest(memory) = sent
           /\ Len(memory) \in Nat /\ Len(memory) \in DOMAIN memory
           /\ memory[Len(memory)] = <<"user", sent>>
           /\ <<"user", sent>> \in SetOf(Pending(memory))
           /\ StableLength(memory) \in Nat /\ StableLength(memory) < Len(memory)
           /\ \A x \in SetOf(Stable(memory)) : x \in Item /\ x[2] < sent
<1>1. memory \in Seq(Item) /\ memory # <<>> /\ memory[Len(memory)] = <<"user", sent>>
  BY DEF IInv, TypeOK, AtQuestion
<1>2. Len(memory) \in Nat /\ Len(memory) \in DOMAIN memory /\ memory[Len(memory)] \in Item
      /\ DOMAIN memory = 1..Len(memory)
  BY <1>1
<1>3. sent \in Messages /\ sent \in Nat
  BY <1>1, <1>2, BoundsAssumption DEF Item, Messages
<1>4. /\ StableLength(memory) \in 0..Len(memory)
      /\ StableLength(memory) > 0 => memory[StableLength(memory)][1] # "user"
  BY <1>1, StableSplit
<1>5. StableLength(memory) \in Nat /\ StableLength(memory) < Len(memory)
  BY <1>1, <1>2, <1>4
<1>6. <<"user", sent>> \in SetOf(Pending(memory))
  <2>1. Len(memory) \in (StableLength(memory) + 1)..Len(memory)
    BY <1>2, <1>5
  <2> QED BY <1>1, <2>1, StableParts
<1>7. ASSUME NEW x \in SetOf(Stable(memory)) PROVE x \in Item /\ x[2] < sent
  <2>1. PICK i \in 1..StableLength(memory) : x = memory[i]
    BY <1>1, StableParts
  <2> DEFINE n == StableLength(memory)
             l == Len(memory)
  <2>2. i \in DOMAIN memory /\ i # Len(memory)
    <3>1. n \in Nat /\ l \in Nat /\ n < l /\ i \in 1..n /\ DOMAIN memory = 1..l
      BY <1>2, <1>5, <2>1
    <3> HIDE DEF n, l
    <3>2. i \in 1..l /\ i # l
      BY <3>1
    <3> QED BY <3>1, <3>2 DEF l
  <2>3. memory[i][2] < sent
    BY <2>2 DEF IInv, AtQuestion
  <2> QED BY <1>1, <2>1, <2>2, <2>3
<1> QED BY <1>1, <1>2, <1>3, <1>5, <1>6, <1>7 DEF Newest

\* What is written goes to the end of the pipe, or nowhere.
LEMMA WriteEffect ==
    ASSUME PipesOK, NEW m \in UpMsg, Write(m)
    PROVE  /\ toServer' \in Seq(UpMsg) /\ toServer' \in {toServer, Append(toServer, m)}
           /\ Up \subseteq Up' /\ Up' \subseteq Up \cup {m}
           /\ OneWrite(toServer) /\ (m.t \in Writing => \A x \in Up : x.t \notin Writing)
                => OneWrite(toServer')
           /\ OneReply(toServer) /\ (m.t = "reply" => \A x \in Up : x.t = "reply" => x.k # m.k)
                => OneReply(toServer')
           /\ \A p \in Requesting, k \in Messages :
                LastAsked(toServer, p, k)
                /\ (m.t \in Requesting => \A x \in Up : ~(x.t = p /\ x.k = k))
                => LastAsked(toServer', p, k)
<1>1. toServer \in Seq(UpMsg) /\ toServer' \in {toServer, Append(toServer, m)}
  BY DEF PipesOK, Write
<1>2. CASE toServer' = toServer
  BY <1>1, <1>2 DEF Up
<1>3. CASE toServer' = Append(toServer, m)
  <2> DEFINE a == Append(toServer, m)
             n == Len(toServer)
  <2>1. /\ a \in Seq(UpMsg) /\ SetOf(a) = Up \cup {m}
        /\ n \in Nat /\ n + 1 \in DOMAIN a /\ a[n + 1] = m
        /\ \A i \in DOMAIN toServer : i \in Nat /\ i < n + 1 /\ i \in DOMAIN a
                                      /\ a[i] = toServer[i] /\ toServer[i] \in Up
        /\ \A i \in DOMAIN a : i \in DOMAIN toServer \/ i = n + 1
    BY <1>1, Pushed DEF Up
  <2> HIDE DEF a, n
  <2>2. ASSUME OneWrite(toServer), m.t \in Writing => \A x \in Up : x.t \notin Writing
        PROVE  OneWrite(a)
    BY <2>1, <2>2 DEF OneWrite
  <2>3. ASSUME OneReply(toServer), m.t = "reply" => \A x \in Up : x.t = "reply" => x.k # m.k
        PROVE  OneReply(a)
    BY <2>1, <2>3 DEF OneReply
  <2>4. ASSUME NEW p \in Requesting, NEW k \in Messages, LastAsked(toServer, p, k),
               m.t \in Requesting => \A x \in Up : ~(x.t = p /\ x.k = k)
        PROVE  LastAsked(a, p, k)
    <3> SUFFICES ASSUME NEW i \in DOMAIN a, NEW j \in DOMAIN a, a[i].t = p, a[i].k = k, i < j
                 PROVE  a[j].t \notin Requesting
      BY DEF LastAsked
    <3>1. i \in DOMAIN toServer
      <4> SUFFICES ASSUME i = n + 1 PROVE FALSE
        BY <2>1
      <4>1. j \in DOMAIN toServer \/ j = n + 1
        BY <2>1
      <4> QED BY <2>1, <4>1
    <3>2. CASE j = n + 1
      BY <2>1, <2>4, <3>1, <3>2
    <3>3. CASE j \in DOMAIN toServer
      BY <2>1, <2>4, <3>1, <3>3 DEF LastAsked
    <3> QED BY <2>1, <3>2, <3>3
  <2> QED BY <1>3, <2>1, <2>2, <2>3, <2>4 DEF a, Up
<1> QED BY <1>1, <1>2, <1>3

\* Nothing of a kind, nothing behind it.
LEMMA NoneAsked ==
    ASSUME NEW s, NEW p, NEW k, \A x \in SetOf(s) : ~(x.t = p /\ x.k = k)
    PROVE  LastAsked(s, p, k)
BY DEF LastAsked, SetOf

LEMMA NoneAnswered ==
    ASSUME NEW s, NEW p, NEW k, \A x \in SetOf(s) : ~(x.to = p /\ x.k = k)
    PROVE  OneAnswer(s, p, k)
BY DEF OneAnswer, SetOf

\* The server takes the first message.
LEMMA TakenEffect ==
    ASSUME PipesOK, toServer # <<>>, Taken
    PROVE  /\ toServer' \in Seq(UpMsg) /\ Up' \subseteq Up
           /\ Head(toServer) \in UpMsg /\ Head(toServer) \in Up
           /\ OneWrite(toServer) => OneWrite(toServer')
           /\ OneWrite(toServer) /\ Head(toServer).t \in Writing => \A x \in Up' : x.t \notin Writing
           /\ OneReply(toServer) => OneReply(toServer')
           /\ OneReply(toServer) /\ Head(toServer).t = "reply"
                => \A x \in Up' : x.t = "reply" => x.k # Head(toServer).k
           /\ \A p \in Requesting, k \in Messages : LastAsked(toServer, p, k) =>
                /\ LastAsked(toServer', p, k)
                /\ Head(toServer).t = p /\ Head(toServer).k = k => \A x \in Up' : x.t \notin Requesting
<1> DEFINE s == toServer
           r == Tail(s)
<1>1. toServer \in Seq(UpMsg) /\ toServer' = Tail(toServer)
  BY DEF PipesOK, Taken
<1>2. /\ r \in Seq(UpMsg) /\ Head(s) \in UpMsg /\ Head(s) \in Up /\ SetOf(r) \subseteq Up
      /\ 1 \in DOMAIN s /\ Head(s) = s[1]
      /\ \A i \in DOMAIN r : i \in Nat /\ i + 1 \in DOMAIN s /\ 1 < i + 1 /\ i + 1 # 1 /\ r[i] = s[i + 1]
  BY <1>1, Popped DEF Up
<1>3. \A i, j \in DOMAIN r : i + 1 = j + 1 => i = j
  BY <1>2
<1>4. \A i, j \in DOMAIN r : i < j => i + 1 < j + 1
  BY <1>2
<1>5. \A x \in SetOf(r) : \E i \in DOMAIN r : x = s[i + 1]
  BY <1>2 DEF SetOf
<1> HIDE DEF r
<1>6. OneWrite(s) => OneWrite(r)
  BY <1>2, <1>3 DEF OneWrite
<1>7. OneWrite(s) /\ Head(s).t \in Writing => \A x \in SetOf(r) : x.t \notin Writing
  BY <1>2, <1>5 DEF OneWrite
<1>8. OneReply(s) => OneReply(r)
  BY <1>2, <1>3 DEF OneReply
<1>9. OneReply(s) /\ Head(s).t = "reply" => \A x \in SetOf(r) : x.t = "reply" => x.k # Head(s).k
  BY <1>2, <1>5 DEF OneReply
<1>10. ASSUME NEW p \in Requesting, NEW k \in Messages, LastAsked(s, p, k)
       PROVE  /\ LastAsked(r, p, k)
              /\ Head(s).t = p /\ Head(s).k = k => \A x \in SetOf(r) : x.t \notin Requesting
  <2>1. LastAsked(r, p, k)
    BY <1>2, <1>4, <1>10 DEF LastAsked
  <2>2. Head(s).t = p /\ Head(s).k = k => \A x \in SetOf(r) : x.t \notin Requesting
    BY <1>2, <1>5, <1>10 DEF LastAsked
  <2> QED BY <2>1, <2>2
<1> QED BY <1>1, <1>2, <1>6, <1>7, <1>8, <1>9, <1>10 DEF r, Up

\* The server sends one.
LEMMA SentEffect ==
    ASSUME PipesOK, NEW m \in DownMsg, toClient' = Append(toClient, m)
    PROVE  /\ toClient' \in Seq(DownMsg) /\ Down' = Down \cup {m}
           /\ OneCall(toClient) /\ (m.t = "tool" => \A x \in Down : x.t = "tool" => x.k # m.k)
                => OneCall(toClient')
           /\ FinalLast(toClient)
              /\ (m.t \in Notes => \A x \in Down : x.t \in Final => x.h # m.h \/ x.k # m.k)
                => FinalLast(toClient')
           /\ \A p \in Requesting, k \in Messages :
                OneAnswer(toClient, p, k)
                /\ (m.to = p /\ m.k = k => \A x \in Down : ~(x.to = p /\ x.k = k))
                => OneAnswer(toClient', p, k)
<1> DEFINE a == Append(toClient, m)
           n == Len(toClient)
<1>1. toClient \in Seq(DownMsg)
  BY DEF PipesOK
<1>2. /\ a \in Seq(DownMsg) /\ SetOf(a) = Down \cup {m}
      /\ n \in Nat /\ n + 1 \in DOMAIN a /\ a[n + 1] = m
      /\ \A i \in DOMAIN toClient : i \in Nat /\ i < n + 1 /\ i \in DOMAIN a
                                    /\ a[i] = toClient[i] /\ toClient[i] \in Down
      /\ \A i \in DOMAIN a : i \in DOMAIN toClient \/ i = n + 1
  BY <1>1, Pushed DEF Down
<1> HIDE DEF a, n
<1>3. ASSUME OneCall(toClient), m.t = "tool" => \A x \in Down : x.t = "tool" => x.k # m.k
      PROVE  OneCall(a)
  BY <1>2, <1>3 DEF OneCall
<1>4. ASSUME NEW p \in Requesting, NEW k \in Messages, OneAnswer(toClient, p, k),
             m.to = p /\ m.k = k => \A x \in Down : ~(x.to = p /\ x.k = k)
      PROVE  OneAnswer(a, p, k)
  BY <1>2, <1>4 DEF OneAnswer
<1>5. ASSUME FinalLast(toClient), m.t \in Notes => \A x \in Down : x.t \in Final => x.h # m.h \/ x.k # m.k,
             NEW i \in DOMAIN a, NEW j \in DOMAIN a, a[i].t \in Final, i < j, a[j].t \in Notes
      PROVE  a[j].h # a[i].h \/ a[j].k # a[i].k
  <2>1. i \in DOMAIN toClient
    <3> SUFFICES ASSUME i = n + 1 PROVE FALSE
      BY <1>2
    <3>1. j \in DOMAIN toClient \/ j = n + 1
      BY <1>2
    <3> QED BY <1>2, <1>5, <3>1
  <2>2. CASE j = n + 1
    BY <1>2, <1>5, <2>1, <2>2
  <2>3. CASE j \in DOMAIN toClient
    BY <1>2, <1>5, <2>1, <2>3 DEF FinalLast
  <2> QED BY <1>2, <2>2, <2>3
<1> QED BY <1>2, <1>3, <1>4, <1>5 DEF a, Down, FinalLast

\* The router reads the first one.
LEMMA ReadEffect ==
    ASSUME PipesOK, toClient # <<>>, toClient' = Tail(toClient)
    PROVE  /\ toClient' \in Seq(DownMsg) /\ Down' \subseteq Down
           /\ Head(toClient) \in DownMsg /\ Head(toClient) \in Down
           /\ OneCall(toClient) => OneCall(toClient')
           /\ OneCall(toClient) /\ Head(toClient).t = "tool"
                => \A x \in Down' : x.t = "tool" => x.k # Head(toClient).k
           /\ FinalLast(toClient) => FinalLast(toClient')
           /\ FinalLast(toClient) /\ Head(toClient).t \in Final
                => \A x \in Down' : x.t \in Notes => x.h # Head(toClient).h \/ x.k # Head(toClient).k
           /\ \A p \in Requesting, k \in Messages : OneAnswer(toClient, p, k) =>
                /\ OneAnswer(toClient', p, k)
                /\ Head(toClient).to = p /\ Head(toClient).k = k
                     => \A x \in Down' : ~(x.to = p /\ x.k = k)
<1> DEFINE s == toClient
           r == Tail(s)
<1>1. toClient \in Seq(DownMsg)
  BY DEF PipesOK
<1>2. /\ r \in Seq(DownMsg) /\ Head(s) \in DownMsg /\ Head(s) \in Down /\ SetOf(r) \subseteq Down
      /\ 1 \in DOMAIN s /\ Head(s) = s[1]
      /\ \A i \in DOMAIN r : i \in Nat /\ i + 1 \in DOMAIN s /\ 1 < i + 1 /\ i + 1 # 1 /\ r[i] = s[i + 1]
  BY <1>1, Popped DEF Down
<1>3. \A i, j \in DOMAIN r : i + 1 = j + 1 => i = j
  BY <1>2
<1>4. \A i, j \in DOMAIN r : i < j => i + 1 < j + 1
  BY <1>2
<1>5. \A x \in SetOf(r) : \E i \in DOMAIN r : x = s[i + 1]
  BY <1>2 DEF SetOf
<1> HIDE DEF r
<1>6. OneCall(s) => OneCall(r)
  BY <1>2, <1>3 DEF OneCall
<1>7. OneCall(s) /\ Head(s).t = "tool" => \A x \in SetOf(r) : x.t = "tool" => x.k # Head(s).k
  BY <1>2, <1>5 DEF OneCall
<1>8. FinalLast(s) => FinalLast(r)
  BY <1>2, <1>4 DEF FinalLast
<1>9. FinalLast(s) /\ Head(s).t \in Final
        => \A x \in SetOf(r) : x.t \in Notes => x.h # Head(s).h \/ x.k # Head(s).k
  BY <1>2, <1>5 DEF FinalLast
<1>10. ASSUME NEW p \in Requesting, NEW k \in Messages, OneAnswer(s, p, k)
       PROVE  /\ OneAnswer(r, p, k)
              /\ Head(s).to = p /\ Head(s).k = k => \A x \in SetOf(r) : ~(x.to = p /\ x.k = k)
  <2>1. OneAnswer(r, p, k)
    BY <1>2, <1>3, <1>10 DEF OneAnswer
  <2>2. Head(s).to = p /\ Head(s).k = k => \A x \in SetOf(r) : ~(x.to = p /\ x.k = k)
    BY <1>2, <1>5, <1>10 DEF OneAnswer
  <2> QED BY <2>1, <2>2
<1> QED BY <1>1, <1>2, <1>6, <1>7, <1>8, <1>9, <1>10 DEF r, Down

\* What llm() asks for.
LEMMA RequestEffect ==
    ASSUME IInv, pc # "idle", NEW p \in Requesting \cup {"stopping", "abandoning"},
           NEW h \in Threads \cup {0}, NEW set \in SUBSET Item, Request(p, h, set)
    PROVE  /\ pc' = p /\ got' = "none" /\ newThread' = 0
           /\ \E m \in UpMsg :
                /\ m = [t |-> p, h |-> h, k |-> sent, set |-> set, base |-> SetOf(Stable(memory))]
                /\ m.t = p /\ m.h = h /\ m.k = sent /\ m.set = set
                /\ m.base = SetOf(Stable(memory))
                /\ Write(m)
<1> DEFINE m == [t |-> p, h |-> h, k |-> sent, set |-> set, base |-> SetOf(Stable(memory))]
<1>1. sent \in Messages /\ Newest(memory) = sent
  BY AtHand
<1>2. SetOf(Stable(memory)) \in SUBSET Item
  BY StableParts DEF IInv, TypeOK
<1>3. m \in UpMsg
  BY <1>1, <1>2 DEF UpMsg
<1>4. Write(m) /\ pc' = p /\ got' = "none" /\ newThread' = 0
  BY <1>1 DEF Request
<1> QED BY <1>3, <1>4

\* The kinds of message.
LEMMA DownKinds ==
    ASSUME NEW m \in DownMsg
    PROVE  /\ m.t \in {"ok", "err"} <=> m.to \in Requesting
           /\ m.t \in Notes => m.h \in Threads /\ m.to = "" /\ m.t \notin {"ok", "err"}
           /\ m.t \in {"ok", "err"} \/ m.t \in Notes
           /\ m.h \in Threads \cup {0} /\ m.k \in Messages
BY DEF DownMsg, AnswerMsg, NoteMsg, Notes, Requesting

\* Turns in memory.
LEMMA ItemsTyped ==
    ASSUME NEW k \in Messages, NEW t \in {"user", "call", "answer", "notice"}
    PROVE  <<t, k>> \in Item
BY DEF Item

LEMMA RememberTyped ==
    ASSUME TypeOK, NEW turns \in Seq(Item), Remember(turns)
    PROVE  memory' \in Seq(Item) /\ onDisk' \in Seq(Item)
BY DEF Remember, TypeOK

\* The steps of llm().
LEMMA LlmTyped ==
    ASSUME IInv, Llm
    PROVE  TypeOK' /\ PipesOK'
<1> DEFINE Pairs == Messages \cup {0}
<1>1. /\ TypeOK /\ PipesOK /\ toClient' = toClient
      /\ UNCHANGED <<held, tools, created, items, live, asked, replies, strayed, sent, faults, alive>>
  BY DEF IInv, Llm, Ask, Resumed, ResumeFails, FreshStarted, Injected, TurnAccepted, RequestFails,
         TurnEnds, TurnTimesOut, Abandoned, StopRequested, Drained, routerVars, serverVars, faultVars
<1>2. pc # "idle"
  BY DEF Llm, Ask, Resumed, ResumeFails, FreshStarted, Injected, TurnAccepted, RequestFails,
         TurnEnds, TurnTimesOut, Abandoned, StopRequested, Drained
<1>3. sent \in Messages /\ Newest(memory) = sent /\ saved \in Threads \cup {0}
      /\ newThread \in Threads \cup {0} /\ thread \in Threads \cup {0}
  BY <1>1, <1>2, AtHand DEF TypeOK
<1>4. SetOf(Stable(memory)) \in SUBSET Item /\ SetOf(Pending(memory)) \in SUBSET Item
  BY <1>1, StableParts DEF TypeOK, Users, Item
<1>5. [NoStream EXCEPT !.for = Newest(memory)] \in [for : Pairs, turns : Seq(Item),
                                                     result : {"none", "completed", "failed"}]
  <2>1. [NoStream EXCEPT !.for = Newest(memory)] = [for |-> sent, turns |-> <<>>, result |-> "none"]
    BY <1>3 DEF NoStream
  <2>2. sent \in Pairs
    BY <1>3
  <2>3. <<>> \in Seq(Item)
    OBVIOUS
  <2> HIDE DEF Pairs
  <2>4. [for |-> sent, turns |-> <<>>, result |-> "none"]
          \in [for : Pairs, turns : Seq(Item), result : {"none", "completed", "failed"}]
    BY <2>2, <2>3
  <2> QED BY <2>1, <2>4
<1>6. NoStream \in [for : Pairs, turns : Seq(Item), result : {"none", "completed", "failed"}]
  BY DEF NoStream
<1>7. ASSUME NEW p \in Requesting \cup {"stopping", "abandoning"}, NEW h \in Threads \cup {0},
             NEW set \in SUBSET Item, Request(p, h, set)
      PROVE  pc' \in Stages /\ got' = "none" /\ newThread' = 0 /\ PipesOK'
  BY <1>1, <1>2, <1>7, RequestEffect, WriteEffect DEF PipesOK, Stages, Requesting
<1>8. ASSUME NEW h \in Threads \cup {0}, StartTurn(h)
      PROVE  /\ pc' \in Stages /\ got' = "none" /\ newThread' = 0 /\ PipesOK'
             /\ stream' \in [for : Pairs, turns : Seq(Item), result : {"none", "completed", "failed"}]
  BY <1>4, <1>5, <1>7, <1>8 DEF StartTurn, Requesting
<1>9. ASSUME Leave PROVE pc' \in Stages /\ got' = "none" /\ newThread' = 0 /\ PipesOK'
  BY <1>1, <1>9 DEF Leave, Stages, PipesOK
<1>10. {} \in SUBSET Item /\ 0 \in Threads \cup {0}
  OBVIOUS
<1> HIDE DEF Pairs
<1>11. CASE Ask
  <2>1. PICK c \in 0..StableLength(memory) : memory' = SubSeq(memory, c + 1, Len(memory))
                                             /\ onDisk' = IF c = 0 THEN onDisk ELSE memory'
    BY <1>11 DEF Ask
  <2>2. memory' \in Seq(Item) /\ onDisk' \in Seq(Item)
    <3>1. StableLength(memory) \in Nat /\ memory \in Seq(Item) /\ onDisk \in Seq(Item)
          /\ StableLength(memory) < Len(memory)
      BY <1>1, <1>2, AtHand DEF TypeOK
    <3> QED BY <2>1, <3>1
  <2>3. pc' \in Stages /\ got' = "none" /\ newThread' = 0 /\ PipesOK'
    BY <1>3, <1>7, <1>10, <1>11 DEF Ask, Requesting
  <2> QED BY <1>1, <1>11, <2>2, <2>3 DEF Ask, TypeOK, routerVars
<1>12. CASE Resumed
  <2>1. pc' \in Stages /\ got' = "none" /\ newThread' = 0 /\ PipesOK'
    BY <1>3, <1>7, <1>8, <1>10, <1>12 DEF Resumed, Requesting
  <2>2. stream' \in [for : Pairs, turns : Seq(Item), result : {"none", "completed", "failed"}]
    BY <1>1, <1>3, <1>8, <1>12 DEF Resumed, TypeOK, Pairs
  <2>3. saved \in Threads
    BY <1>3, <1>12 DEF Resumed, IInv, ThreadKnown
  <2> QED BY <1>1, <1>12, <2>1, <2>2, <2>3 DEF Resumed, TypeOK, routerVars, Pairs
<1>13. CASE ResumeFails
  <2>1. pc' \in Stages /\ got' = "none" /\ newThread' = 0 /\ PipesOK'
    BY <1>3, <1>7, <1>10, <1>13 DEF ResumeFails, Requesting
  <2> QED BY <1>1, <1>13, <2>1 DEF ResumeFails, TypeOK, routerVars
<1>14. CASE FreshStarted
  <2>1. pc' \in Stages /\ got' = "none" /\ newThread' = 0 /\ PipesOK'
    BY <1>3, <1>4, <1>7, <1>8, <1>14 DEF FreshStarted, Requesting
  <2>2. stream' \in [for : Pairs, turns : Seq(Item), result : {"none", "completed", "failed"}]
    BY <1>1, <1>3, <1>8, <1>14 DEF FreshStarted, TypeOK, Pairs
  <2>3. newThread \in Threads
    BY <1>1, <1>3, <1>14, BoundsAssumption DEF FreshStarted, IInv, ThreadsNamed, TypeOK, Threads
  <2> QED BY <1>1, <1>14, <2>1, <2>2, <2>3 DEF FreshStarted, Reregistered, TypeOK, routerVars, Pairs
<1>15. CASE Injected
  <2>1. /\ pc' \in Stages /\ got' = "none" /\ newThread' = 0 /\ PipesOK'
        /\ stream' \in [for : Pairs, turns : Seq(Item), result : {"none", "completed", "failed"}]
    BY <1>3, <1>8, <1>15 DEF Injected
  <2> QED BY <1>1, <1>15, <2>1 DEF Injected, TypeOK, routerVars, Pairs
<1>16. CASE TurnAccepted
  BY <1>1, <1>16 DEF TurnAccepted, TypeOK, PipesOK, Stages, routerVars
<1>17. CASE RequestFails
  BY <1>1, <1>6, <1>9, <1>17 DEF RequestFails, TypeOK, routerVars, Pairs
<1>18. CASE TurnEnds
  <2>1. memory' \in Seq(Item) /\ onDisk' \in Seq(Item)
    BY <1>1, <1>18, RememberTyped DEF TurnEnds, TypeOK
  <2> QED BY <1>1, <1>6, <1>9, <1>18, <2>1 DEF TurnEnds, TypeOK, routerVars, Pairs
<1>19. CASE TurnTimesOut
  <2>1. pc' \in Stages /\ got' = "none" /\ newThread' = 0 /\ PipesOK'
    BY <1>3, <1>7, <1>10, <1>19 DEF TurnTimesOut
  <2> QED BY <1>1, <1>6, <1>19, <2>1 DEF TurnTimesOut, TypeOK, Pairs
<1>20. CASE Abandoned
  BY <1>1, <1>9, <1>20 DEF Abandoned, TypeOK, routerVars
<1>21. CASE StopRequested
  BY <1>1, <1>21 DEF StopRequested, TypeOK, PipesOK, Stages, routerVars
<1>22. CASE Drained
  <2>1. stream.for \in Messages
    BY <1>3, <1>22 DEF Drained, IInv, StreamNow, InTurn
  <2>2. Append(stream.turns, <<"notice", stream.for>>) \in Seq(Item)
    <3>1. stream.turns \in Seq(Item) /\ <<"notice", stream.for>> \in Item
      BY <1>1, <2>1, ItemsTyped DEF TypeOK
    <3> QED BY <3>1
  <2>3. memory' \in Seq(Item) /\ onDisk' \in Seq(Item)
    BY <1>1, <1>22, <2>2, RememberTyped DEF Drained
  <2> QED BY <1>1, <1>6, <1>9, <1>22, <2>3 DEF Drained, TypeOK, routerVars, Pairs
<1> QED BY <1>11, <1>12, <1>13, <1>14, <1>15, <1>16, <1>17, <1>18, <1>19, <1>20, <1>21, <1>22 DEF Llm

\* The router, the tools, the user and the failures.
LEMMA OthersTyped ==
    ASSUME IInv, UserTurn \/ Stop \/ Router \/ ToolTask \/ Die \/ Restart
    PROVE  TypeOK' /\ PipesOK'
<1>1. TypeOK /\ PipesOK /\ toServer \in Seq(UpMsg) /\ toClient \in Seq(DownMsg)
  BY DEF IInv, PipesOK
<1>2. \A k \in Messages : ToolReply(k) \in UpMsg
  BY DEF ToolReply, UpMsg
<1>3. CASE UserTurn
  <2>1. sent' \in 0..MaxMessages /\ sent' \in Messages
    BY <1>1, <1>3, BoundsAssumption DEF UserTurn, TypeOK, Messages
  <2>2. memory' \in Seq(Item)
    <3>1. memory \in Seq(Item) /\ <<"user", sent'>> \in Item /\ memory' = Append(memory, <<"user", sent'>>)
      BY <1>1, <1>3, <2>1 DEF UserTurn, TypeOK, Item
    <3> QED BY <3>1
  <2> QED BY <1>1, <1>3, <2>1, <2>2 DEF UserTurn, TypeOK, PipesOK, Stages, routerVars, serverVars
<1>4. CASE Stop
  <2>1. faults' \in 0..MaxFaults
    BY <1>1, <1>4, BoundsAssumption DEF Stop, TypeOK
  <2>2. pc' \in Stages /\ got' = "none" /\ newThread' = 0 /\ PipesOK' /\ cut' \subseteq tools'
    <3>1. CASE pc = "running"
      <4>1. Request("stopping", thread, {}) /\ cut' = tools /\ tools' = tools /\ toClient' = toClient
        BY <1>4, <3>1 DEF Stop
      <4>2. pc # "idle" /\ thread \in Threads \cup {0} /\ {} \in SUBSET Item
        BY <1>1, <3>1 DEF TypeOK
      <4>3. pc' = "stopping" /\ got' = "none" /\ newThread' = 0 /\ \E m \in UpMsg : Write(m)
        BY <4>1, <4>2, RequestEffect
      <4>4. toServer' \in Seq(UpMsg)
        BY <1>1, <4>3, WriteEffect
      <4>5. cut' \subseteq tools'
        BY <4>1
      <4> QED BY <1>1, <4>1, <4>3, <4>4, <4>5 DEF PipesOK, Stages
    <3>2. CASE pc # "running"
      BY <1>1, <1>4, <3>2 DEF Stop, Leave, PipesOK, Stages, TypeOK
    <3> QED BY <3>1, <3>2
  <2> QED BY <1>1, <1>4, <2>1, <2>2 DEF Stop, TypeOK, serverVars
<1>5. CASE RouteReply
  <2>1. toClient # <<>> /\ Head(toClient).t \in {"ok", "err"} /\ toClient' = Tail(toClient)
    BY <1>5 DEF RouteReply, Routes
  <2>2. toClient' \in Seq(DownMsg) /\ Head(toClient) \in DownMsg
    BY <1>1, <2>1, ReadEffect
  <2>3. got' \in {"none", "ok", "err"} /\ newThread' \in Threads \cup {0}
    BY <1>1, <1>5, <2>1, <2>2, DownKinds DEF RouteReply, TypeOK
  <2> QED BY <1>1, <1>5, <2>2, <2>3 DEF RouteReply, TypeOK, PipesOK, routerVars, serverVars, faultVars
<1>6. CASE RouteTool
  <2>1. toClient # <<>> /\ toClient' = Tail(toClient)
    BY <1>6 DEF RouteTool, Routes
  <2>2. toClient' \in Seq(DownMsg) /\ Head(toClient).k \in Messages
    BY <1>1, <2>1, ReadEffect, DownKinds
  <2>3. toServer' \in Seq(UpMsg)
    BY <1>1, <1>2, <1>6, <2>2, WriteEffect DEF RouteTool, Decline
  <2>4. tools' \subseteq Messages /\ cut' \subseteq tools'
    BY <1>1, <1>6, <2>2 DEF RouteTool, TypeOK
  <2> QED BY <1>1, <1>6, <2>2, <2>3, <2>4
          DEF RouteTool, TypeOK, PipesOK, clientVars, serverVars, faultVars
<1>7. CASE RouteNotification
  <2> DEFINE m == Head(toClient)
  <2>1. toClient # <<>> /\ toClient' = Tail(toClient) /\ m.t \in {"call", "message", "completed", "failed"}
    BY <1>7 DEF RouteNotification, Routes
  <2>2. toClient' \in Seq(DownMsg) /\ m.k \in Messages /\ <<"call", m.k>> \in Item
    BY <1>1, <2>1, ReadEffect, DownKinds, ItemsTyped
  <2>3. stream' \in {stream, [stream EXCEPT !.turns = Append(@, <<"call", m.k>>)],
                     [stream EXCEPT !.result = m.t]}
        /\ (stream' = [stream EXCEPT !.result = m.t] => m.t \in {"completed", "failed"} \/ stream' = stream)
    BY <1>1, <1>7, <2>1 DEF RouteNotification, TypeOK
  <2>4. stream' \in [for : Messages \cup {0}, turns : Seq(Item), result : {"none", "completed", "failed"}]
    <3>1. stream \in [for : Messages \cup {0}, turns : Seq(Item), result : {"none", "completed", "failed"}]
      BY <1>1 DEF TypeOK
    <3>2. Append(stream.turns, <<"call", m.k>>) \in Seq(Item)
      BY <2>2, <3>1
    <3> QED BY <2>3, <3>1, <3>2
  <2>5. held' \in [turn : Messages \cup {0}, for : Messages \cup {0}]
    BY <1>1, <1>7, <2>2 DEF RouteNotification, TypeOK
  <2> QED BY <1>1, <1>7, <2>2, <2>4, <2>5 DEF RouteNotification, TypeOK, PipesOK, serverVars, faultVars
<1>8. CASE RouteNative
  <2> DEFINE m == Head(toClient)
  <2>1. toClient # <<>> /\ toClient' = Tail(toClient)
    BY <1>8 DEF RouteNative, Routes
  <2>2. toClient' \in Seq(DownMsg) /\ <<"call", m.k>> \in Item
    BY <1>1, <2>1, ReadEffect, DownKinds, ItemsTyped
  <2>3. stream' \in [for : Messages \cup {0}, turns : Seq(Item), result : {"none", "completed", "failed"}]
    <3>1. stream \in [for : Messages \cup {0}, turns : Seq(Item), result : {"none", "completed", "failed"}]
      BY <1>1 DEF TypeOK
    <3>2. Append(stream.turns, <<"call", m.k>>) \in Seq(Item)
      BY <2>2, <3>1
    <3>3. stream' \in {stream, [stream EXCEPT !.turns = Append(@, <<"call", m.k>>)]}
      BY <1>8 DEF RouteNative
    <3> QED BY <3>1, <3>2, <3>3
  <2> QED BY <1>1, <1>8, <2>2, <2>3 DEF RouteNative, TypeOK, PipesOK, routerVars, serverVars, faultVars
<1>9. CASE MessageShown
  <2>1. held.turn # 0 /\ held.turn \in Messages
    BY <1>1, <1>9 DEF MessageShown, NotHeld, IInv, StreamOwn, TypeOK
  <2>2. stream' \in [for : Messages \cup {0}, turns : Seq(Item), result : {"none", "completed", "failed"}]
    <3>1. stream \in [for : Messages \cup {0}, turns : Seq(Item), result : {"none", "completed", "failed"}]
          /\ <<"answer", held.turn>> \in Item
      BY <1>1, <2>1, ItemsTyped DEF TypeOK
    <3>2. Append(stream.turns, <<"answer", held.turn>>) \in Seq(Item)
      BY <3>1
    <3>3. stream' \in {stream, [stream EXCEPT !.turns = Append(@, <<"answer", held.turn>>)]}
      BY <1>9 DEF MessageShown
    <3> QED BY <3>1, <3>2, <3>3
  <2>3. held' \in [turn : Messages \cup {0}, for : Messages \cup {0}]
    BY <1>9 DEF MessageShown, NotHeld
  <2> QED BY <1>1, <1>9, <2>2, <2>3 DEF MessageShown, TypeOK, PipesOK, serverVars, faultVars
<1>10. ASSUME NEW k \in Messages, ToolCut(k) \/ ToolEnds(k)
       PROVE  TypeOK' /\ PipesOK'
  <2>1. toServer' \in Seq(UpMsg)
    BY <1>1, <1>2, <1>10, WriteEffect DEF ToolCut, ToolEnds
  <2> QED BY <1>1, <1>10, <2>1
          DEF ToolCut, ToolEnds, TypeOK, PipesOK, clientVars, serverVars, faultVars
<1>11. CASE Die
  <2>1. faults' \in 0..MaxFaults
    BY <1>1, <1>11, BoundsAssumption DEF Die, TypeOK
  <2>2. PipesOK'
    BY <1>1, <1>11 DEF Die, PipesOK
  <2>3. live' \in [Threads -> SUBSET Messages] /\ asked' = {} /\ alive' \in BOOLEAN
    BY <1>11 DEF Die
  <2>4. UNCHANGED <<memory, onDisk, pc, got, newThread, thread, saved, handlers, stream, held, tools, cut,
                    created, items, replies, strayed, sent>>
    BY <1>11 DEF Die, clientVars, routerVars
  <2> QED BY <1>1, <2>1, <2>2, <2>3, <2>4 DEF TypeOK
<1>12. CASE Restart
  <2>1. faults' \in 0..MaxFaults
    BY <1>1, <1>12, BoundsAssumption DEF Restart, TypeOK
  <2> QED BY <1>1, <1>12, <2>1 DEF Restart, TypeOK, PipesOK, NoStream, NotHeld, Stages
<1> QED BY <1>3, <1>4, <1>5, <1>6, <1>7, <1>8, <1>9, <1>10, <1>11, <1>12 DEF Router, ToolTask

\* Answers and notifications.
LEMMA AnswerTyped ==
    ASSUME PipesOK, toServer # <<>>, Head(toServer).t \in Requesting,
           NEW t \in {"ok", "err"}, NEW h \in Threads \cup {0}
    PROVE  Note(t, Head(toServer).t, h, Head(toServer).k) \in DownMsg
<1>1. Head(toServer) \in UpMsg
  BY Popped DEF PipesOK
<1>2. Head(toServer).k \in Messages
  BY <1>1 DEF UpMsg
<1> QED BY <1>2 DEF Note, DownMsg, AnswerMsg

LEMMA NoteTyped ==
    ASSUME NEW t \in Notes, NEW h \in Threads, NEW k \in Messages
    PROVE  Note(t, "", h, k) \in DownMsg
BY DEF Note, DownMsg, NoteMsg

\* The message at the head names its thread.
LEMMA HeadThread ==
    ASSUME IInv, toServer # <<>>, Head(toServer).t \notin {"fresh", "reply"}
    PROVE  Head(toServer).h \in Threads /\ Head(toServer).h <= saved
<1>1. Head(toServer) \in UpMsg /\ Head(toServer) \in Up
  BY Popped DEF IInv, PipesOK, Up
<1> QED BY <1>1 DEF IInv, ThreadsNamed, UpMsg

\* Where a turn that waits for a tool runs.
LEMMA AskedWhere ==
    ASSUME IInv, NEW k \in asked
    PROVE  LET h == CHOOSE h \in Threads : k \in live[h] IN h \in Threads /\ k \in live[h]
BY DEF IInv, CallKnown

LEMMA ServerTyped ==
    ASSUME IInv, Serve \/ Model
    PROVE  TypeOK' /\ PipesOK'
<1>1. /\ TypeOK /\ PipesOK /\ toServer \in Seq(UpMsg) /\ toClient \in Seq(DownMsg)
      /\ items \in [Threads -> SUBSET Item] /\ live \in [Threads -> SUBSET Messages]
      /\ asked \subseteq Messages /\ replies \in [Messages -> Nat] /\ strayed \subseteq Threads
      /\ created \in 0..MaxThreads
  BY DEF IInv, PipesOK, TypeOK
<1>2. UNCHANGED <<clientVars, routerVars, faultVars>>
  BY DEF Serve, Model, ServeRefused, ServeResume, ServeNew, ServeInject, ServeTurn, ServeInterrupt,
         ServeReply, CallTool, RunNative, Say, Complete
<1>3. ASSUME /\ items' \in [Threads -> SUBSET Item] /\ live' \in [Threads -> SUBSET Messages]
             /\ asked' \subseteq Messages /\ replies' \in [Messages -> Nat] /\ strayed' \subseteq Threads
             /\ created' \in 0..MaxThreads
      PROVE  TypeOK'
  BY <1>1, <1>2, <1>3 DEF TypeOK, clientVars, routerVars, faultVars
<1>4. ASSUME Serve PROVE toServer # <<>> /\ Taken
  BY <1>4 DEF Serve, ServeRefused, ServeResume, ServeNew, ServeInject, ServeTurn, ServeInterrupt,
              ServeReply, Serves
<1>5. ASSUME Serve PROVE Head(toServer) \in UpMsg /\ toServer' \in Seq(UpMsg)
  BY <1>1, <1>4, <1>5, TakenEffect
<1>6. CASE Model
  <2>1. PICK h \in Threads, k \in Messages :
          CallTool(h, k) \/ RunNative(h, k) \/ Say(h, k) \/ Complete(h, k)
    BY <1>6 DEF Model
  <2>2. \E n \in DownMsg : toClient' = Append(toClient, n)
    BY <2>1, NoteTyped DEF CallTool, RunNative, Say, Complete, Notes
  <2>3. items' \in [Threads -> SUBSET Item]
    BY <1>1, <2>1, ItemsTyped DEF CallTool, RunNative, Say, Complete
  <2>4. live' \in [Threads -> SUBSET Messages] /\ asked' \subseteq Messages /\ toServer' = toServer
        /\ UNCHANGED <<replies, strayed, created>>
    BY <1>1, <2>1 DEF CallTool, RunNative, Say, Complete
  <2> QED BY <1>1, <1>3, <2>2, <2>3, <2>4 DEF PipesOK
<1>7. CASE ServeRefused \/ ServeResume
  <2>1. Serve
    BY <1>7 DEF Serve
  <2>2. Head(toServer).t \in Requesting /\ (ServeResume => Head(toServer).t = "resume")
    BY <1>7 DEF ServeRefused, ServeResume, Serves, Requesting
  <2>3. ServeResume => Head(toServer).h \in Threads
    BY <1>4, <2>1, <2>2, HeadThread
  <2>4. \E n \in DownMsg : toClient' = Append(toClient, n)
    BY <1>1, <1>4, <1>7, <2>1, <2>2, <2>3, AnswerTyped DEF ServeRefused, ServeResume, Answer
  <2>5. UNCHANGED serverVars
    BY <1>7 DEF ServeRefused, ServeResume
  <2> QED BY <1>1, <1>3, <1>5, <2>1, <2>4, <2>5 DEF PipesOK, serverVars
<1>8. CASE ServeNew
  <2>1. Serve
    BY <1>8 DEF Serve
  <2>2. created' \in 0..MaxThreads /\ created' \in Threads
    BY <1>1, <1>8, BoundsAssumption DEF ServeNew, Threads
  <2>3. \E n \in DownMsg : toClient' = Append(toClient, n)
    BY <1>1, <1>4, <1>8, <2>1, <2>2, AnswerTyped DEF ServeNew, Answer, Serves, Requesting
  <2> QED BY <1>1, <1>3, <1>5, <1>8, <2>1, <2>2, <2>3 DEF PipesOK, ServeNew
<1>9. CASE ServeInject \/ ServeTurn
  <2> DEFINE m == Head(toServer)
  <2>1. Serve
    BY <1>9 DEF Serve
  <2>2. m.t \in Writing
    BY <1>9 DEF ServeInject, ServeTurn, Serves, Writing
  <2>3. m.h \in Threads /\ m.k \in Messages /\ m.set \in SUBSET Item
    BY <1>4, <1>5, <2>1, <2>2, HeadThread DEF UpMsg, Writing
  <2>4. \E n \in DownMsg : toClient' = Append(toClient, n)
    BY <1>1, <1>4, <1>9, <2>1, <2>2, AnswerTyped DEF ServeInject, ServeTurn, Answer, Requesting, Writing
  <2>5. items' \in [Threads -> SUBSET Item]
    BY <1>1, <1>9, <2>3 DEF ServeInject, ServeTurn
  <2>6. live' \in [Threads -> SUBSET Messages] /\ strayed' \subseteq Threads
    BY <1>1, <1>9, <2>3 DEF ServeInject, ServeTurn
  <2>7. UNCHANGED <<created, asked, replies>>
    BY <1>9 DEF ServeInject, ServeTurn
  <2> QED BY <1>1, <1>3, <1>5, <2>1, <2>4, <2>5, <2>6, <2>7 DEF PipesOK
<1>10. CASE ServeInterrupt
  <2> DEFINE h == Head(toServer).h
             k == CHOOSE k \in live[h] : TRUE
  <2>1. Serve
    BY <1>10 DEF Serve
  <2>2. h \in Threads
    BY <1>4, <1>10, <2>1, HeadThread DEF ServeInterrupt, Serves
  <2>3. live[h] # {} => k \in Messages
    BY <1>1, <2>2
  <2>4. toClient' = toClient \/ \E n \in DownMsg : toClient' = Append(toClient, n)
    BY <1>10, <2>2, <2>3, NoteTyped DEF ServeInterrupt, Notes
  <2>5. live' \in [Threads -> SUBSET Messages] /\ asked' \subseteq Messages
    BY <1>1, <1>10, <2>2 DEF ServeInterrupt
  <2>6. UNCHANGED <<created, items, replies, strayed>>
    BY <1>10 DEF ServeInterrupt
  <2> HIDE DEF h, k
  <2>7. TypeOK'
    BY <1>1, <1>3, <2>5, <2>6
  <2>8. toClient' \in Seq(DownMsg)
    BY <1>1, <2>4, SentEffect
  <2> QED BY <1>5, <2>1, <2>7, <2>8 DEF PipesOK
<1>11. CASE ServeReply
  <2> DEFINE k == Head(toServer).k
             h == CHOOSE h \in Threads : k \in live[h]
  <2>1. Serve
    BY <1>11 DEF Serve
  <2>2. k \in Messages
    BY <1>5, <2>1 DEF UpMsg
  <2> HIDE DEF k
  <2>3. replies' \in [Messages -> Nat] /\ asked' \subseteq Messages
    <3>1. replies' = [replies EXCEPT ![k] = @ + 1] /\ asked' = asked \ {k}
      BY <1>11 DEF ServeReply, k
    <3> QED BY <1>1, <2>2, <3>1
  <2>4. k \in asked => h \in Threads
    BY AskedWhere
  <2> HIDE DEF h
  <2>5. \/ UNCHANGED <<items, toClient>>
        \/ /\ k \in asked /\ items' = [items EXCEPT ![h] = @ \cup {<<"call", k>>}]
           /\ toClient' = Append(toClient, Note("call", "", h, k))
    BY <1>11 DEF ServeReply, k, h
  <2>6. toClient' \in Seq(DownMsg)
    <3>1. k \in asked => Note("call", "", h, k) \in DownMsg
      BY <2>2, <2>4, NoteTyped DEF Notes
    <3>2. toClient' = toClient \/ \E n \in DownMsg : toClient' = Append(toClient, n)
      BY <2>5, <3>1
    <3> QED BY <1>1, <3>2, SentEffect
  <2>7. items' \in [Threads -> SUBSET Item]
    <3>1. <<"call", k>> \in Item
      BY <2>2, ItemsTyped
    <3> QED BY <1>1, <2>4, <2>5, <3>1
  <2>8. UNCHANGED <<created, live, strayed>>
    BY <1>11 DEF ServeReply
  <2>9. TypeOK'
    BY <1>1, <1>3, <2>3, <2>7, <2>8
  <2> QED BY <1>5, <2>1, <2>6, <2>9 DEF PipesOK
<1> QED BY <1>6, <1>7, <1>8, <1>9, <1>10, <1>11 DEF Serve

-----------------------------------------------------------------------------
(* Families of steps *)

\* llm() and /stop touch neither the server nor what it has sent.
LEMMA LlmFrame ==
    ASSUME Llm \/ Stop
    PROVE  /\ pc # "idle"
           /\ UNCHANGED <<toClient, held, tools, serverVars, sent, alive>>
           /\ UNCHANGED <<created, items, live, asked, replies, strayed>>
BY DEF Llm, Ask, Resumed, ResumeFails, FreshStarted, Injected, TurnAccepted, RequestFails,
       TurnEnds, TurnTimesOut, Abandoned, StopRequested, Drained, Stop,
       routerVars, serverVars, faultVars

LEMMA RouterFrame ==
    ASSUME Router
    PROVE  /\ UNCHANGED <<memory, onDisk, pc, thread, saved, handlers, cut, serverVars, faultVars>>
           /\ UNCHANGED <<created, items, live, asked, replies, strayed, sent, faults, alive>>
           /\ toClient' # toClient => toClient # <<>> /\ toClient' = Tail(toClient)
<1>1. CASE RouteReply
  BY <1>1 DEF RouteReply, Routes, routerVars, serverVars, faultVars
<1>2. CASE RouteTool
  BY <1>2 DEF RouteTool, Routes, clientVars, serverVars, faultVars
<1>3. CASE RouteNotification
  BY <1>3 DEF RouteNotification, Routes, serverVars, faultVars
<1>4. CASE RouteNative
  BY <1>4 DEF RouteNative, Routes, routerVars, serverVars, faultVars
<1>5. CASE MessageShown
  BY <1>5 DEF MessageShown, serverVars, faultVars
<1> QED BY <1>1, <1>2, <1>3, <1>4, <1>5 DEF Router

LEMMA ToolFrame ==
    ASSUME TypeOK, NEW k \in Messages, ToolCut(k) \/ ToolEnds(k)
    PROVE  /\ UNCHANGED <<memory, onDisk, pc, got, newThread, thread, saved, handlers, stream, held>>
           /\ UNCHANGED <<toClient, created, items, live, asked, replies, strayed, sent, faults, alive>>
           /\ Write(ToolReply(k)) /\ k \in tools /\ tools' = tools \ {k}
           /\ ToolReply(k) \in UpMsg /\ ToolReply(k).t = "reply" /\ ToolReply(k).k = k
BY DEF ToolCut, ToolEnds, clientVars, serverVars, faultVars, TypeOK, ToolReply, UpMsg

LEMMA ServerFrame ==
    ASSUME Serve \/ Model
    PROVE  /\ UNCHANGED <<memory, onDisk, pc, got, newThread, thread, saved, handlers, stream>>
           /\ UNCHANGED <<held, tools, cut, sent, faults, alive>>
           /\ Serve => toServer # <<>> /\ Taken
           /\ Model => toServer' = toServer
BY DEF Serve, Model, ServeRefused, ServeResume, ServeNew, ServeInject, ServeTurn, ServeInterrupt,
       ServeReply, CallTool, RunNative, Say, Complete, clientVars, routerVars, faultVars, Serves

\* The server counts an answer to a tool call, and its turn goes on.
LEMMA ReplyEffect ==
    ASSUME IInv, ServeReply
    PROVE  LET k == Head(toServer).k IN
           /\ Head(toServer) \in Up /\ Head(toServer).t = "reply" /\ k \in Messages
           /\ replies' = [replies EXCEPT ![k] = @ + 1] /\ asked' = asked \ {k}
           /\ \/ k \notin asked /\ UNCHANGED <<items, toClient>>
              \/ \E h \in Threads :
                   /\ k \in asked /\ k \in live[h]
                   /\ items' = [items EXCEPT ![h] = @ \cup {<<"call", k>>}]
                   /\ toClient' = Append(toClient, Note("call", "", h, k))
                   /\ Note("call", "", h, k) \in DownMsg
           /\ UNCHANGED <<created, live, strayed>>
<1> DEFINE k == Head(toServer).k
           h == CHOOSE h \in Threads : k \in live[h]
<1>1. toServer # <<>> /\ Head(toServer).t = "reply" /\ Taken
  BY DEF ServeReply, Serves
<1>2. Head(toServer) \in Up /\ Head(toServer) \in UpMsg /\ k \in Messages
  <2>1. Head(toServer) \in Up /\ Head(toServer) \in UpMsg
    BY <1>1, Popped DEF IInv, PipesOK, Up
  <2> QED BY <2>1 DEF UpMsg
<1>3. k \in asked => h \in Threads /\ k \in live[h]
  BY AskedWhere
<1>4. replies' = [replies EXCEPT ![k] = @ + 1] /\ asked' = asked \ {k} /\ UNCHANGED <<created, live, strayed>>
  BY DEF ServeReply
<1> HIDE DEF k, h
<1>5. \/ k \notin asked /\ UNCHANGED <<items, toClient>>
      \/ /\ k \in asked /\ items' = [items EXCEPT ![h] = @ \cup {<<"call", k>>}]
         /\ toClient' = Append(toClient, Note("call", "", h, k))
  BY DEF ServeReply, k, h
<1>6. k \in asked => Note("call", "", h, k) \in DownMsg
  BY <1>2, <1>3, NoteTyped DEF Notes
<1>7. Head(toServer).t = "reply"
  BY <1>1
<1> QED BY <1>2, <1>3, <1>4, <1>5, <1>6, <1>7 DEF k

\* It ends the turn of a thread, or has nothing to end.
LEMMA InterruptEffect ==
    ASSUME IInv, ServeInterrupt
    PROVE  LET h == Head(toServer).h IN
           /\ h \in Threads /\ Head(toServer).t \in {"stopping", "abandoning"}
           /\ UNCHANGED <<created, items, replies, strayed>>
           /\ \/ UNCHANGED <<live, asked, toClient>>
              \/ \E k \in Messages :
                   /\ k \in live[h] /\ live' = [live EXCEPT ![h] = {}] /\ asked' = asked \ live[h]
                   /\ toClient' = Append(toClient, Note("completed", "", h, k))
                   /\ Note("completed", "", h, k) \in DownMsg
<1> DEFINE h == Head(toServer).h
           k == CHOOSE k \in live[h] : TRUE
<1>1. toServer # <<>> /\ Head(toServer).t \in {"stopping", "abandoning"}
  BY DEF ServeInterrupt, Serves
<1>2. h \in Threads
  BY <1>1, HeadThread
<1>3. live[h] # {} => k \in Messages /\ k \in live[h]
  BY <1>2 DEF IInv, TypeOK
<1>4. UNCHANGED <<created, items, replies, strayed>>
  BY DEF ServeInterrupt
<1>5. \/ UNCHANGED <<live, asked, toClient>>
      \/ /\ live[h] # {} /\ live' = [live EXCEPT ![h] = {}] /\ asked' = asked \ live[h]
         /\ toClient' = Append(toClient, Note("completed", "", h, k))
  BY DEF ServeInterrupt
<1> HIDE DEF h, k
<1>6. live[h] # {} => Note("completed", "", h, k) \in DownMsg
  BY <1>2, <1>3, NoteTyped DEF Notes
<1>7. h = Head(toServer).h
  BY DEF h
<1> QED BY <1>1, <1>2, <1>3, <1>4, <1>5, <1>6, <1>7

\* Where llm() goes, and what it writes on the way.
LEMMA LlmMoves ==
    ASSUME IInv, Llm \/ Stop
    PROVE  /\ pc' # pc /\ got' = "none"
           /\ pc' # "idle" => Past(pc) \subseteq Past(pc')
           /\ \/ toServer' = toServer /\ pc' \in {"idle", "running", "draining"}
              \/ \E m \in UpMsg :
                   /\ Write(m) /\ m.t = pc' /\ m.k = sent
                   /\ pc' \in Requesting \cup {"stopping", "abandoning"}
                   /\ pc' \in Requesting => pc' \in Past(pc') \ Past(pc)
                   /\ pc' # "fresh" => m.h = saved' /\ saved' # 0
                   /\ pc' = "inject" => /\ m.set = SetOf(Stable(memory)) /\ pc = "fresh" /\ FreshStarted
                   /\ pc' = "starting" =>
                        /\ m.set = SetOf(Pending(memory)) /\ m.base = SetOf(Stable(memory))
                        /\ stream' = [NoStream EXCEPT !.for = sent]
                   /\ pc' \in Writing => pc \in Requesting /\ got = "ok"
<1> DEFINE Done == toServer' = toServer /\ pc' \in {"idle", "running", "draining"}
           Asks(p, h, set) == \E m \in UpMsg :
                /\ m.t = p /\ m.h = h /\ m.k = sent /\ m.set = set
                /\ m.base = SetOf(Stable(memory)) /\ Write(m)
<1>1. TypeOK /\ ThreadKnown /\ pc # "idle" /\ {} \in SUBSET Item
  BY LlmFrame DEF IInv
<1>2. sent \in Messages /\ Newest(memory) = sent
  BY <1>1, AtHand
<1>3. SetOf(Stable(memory)) \in SUBSET Item /\ SetOf(Pending(memory)) \in SUBSET Item
  BY <1>1, StableParts DEF TypeOK, Users, Item
<1>4. ASSUME NEW p \in Requesting \cup {"stopping", "abandoning"}, NEW h \in Threads \cup {0},
             NEW set \in SUBSET Item, Request(p, h, set)
      PROVE  pc' = p /\ got' = "none" /\ Asks(p, h, set)
  BY <1>1, <1>4, RequestEffect
<1>5. ASSUME NEW h \in Threads \cup {0}, StartTurn(h)
      PROVE  /\ pc' = "starting" /\ got' = "none" /\ Asks("starting", h, SetOf(Pending(memory)))
             /\ stream' = [NoStream EXCEPT !.for = sent]
  BY <1>2, <1>3, <1>4, <1>5 DEF StartTurn, Requesting
<1>6. Leave => Done /\ got' = "none" /\ pc' = "idle"
  BY DEF Leave
<1>7. /\ thread \in Threads \cup {0} /\ saved \in Threads \cup {0} /\ newThread \in Threads \cup {0}
      /\ 0 \in Threads \cup {0}
  BY <1>1 DEF TypeOK
<1> HIDE DEF Done, Asks
<1> USE DEF Past, Requesting, Writing
<1>8. CASE Ask
  <2>1. pc = "ask" /\ (\/ saved # 0 /\ saved' = saved /\ Request("resume", saved, {})
                       \/ Request("fresh", 0, {}))
    BY <1>8 DEF Ask
  <2>2. CASE saved # 0 /\ saved' = saved /\ Request("resume", saved, {})
    <3>1. pc' = "resume" /\ got' = "none" /\ Asks("resume", saved, {})
      BY <1>1, <1>4, <1>7, <2>2
    <3> QED BY <2>1, <2>2, <3>1 DEF Asks
  <2>3. CASE Request("fresh", 0, {})
    <3>1. pc' = "fresh" /\ got' = "none" /\ Asks("fresh", 0, {})
      BY <1>1, <1>4, <1>7, <2>3
    <3> QED BY <2>1, <3>1 DEF Asks
  <2> QED BY <2>1, <2>2, <2>3
<1>9. CASE Resumed
  <2>1. pc = "resume" /\ got = "ok" /\ saved' = saved /\ saved # 0
    BY <1>1, <1>9 DEF Resumed, ThreadKnown
  <2>2. CASE Diverged(saved)
    <3>1. pc' = "fresh" /\ got' = "none" /\ Asks("fresh", 0, {})
      BY <1>1, <1>4, <1>7, <1>9, <2>2 DEF Resumed
    <3> QED BY <2>1, <3>1 DEF Asks
  <2>3. CASE ~Diverged(saved)
    <3>1. /\ pc' = "starting" /\ got' = "none" /\ Asks("starting", saved, SetOf(Pending(memory)))
          /\ stream' = [NoStream EXCEPT !.for = sent]
      BY <1>5, <1>7, <1>9, <2>3 DEF Resumed
    <3> QED BY <2>1, <3>1 DEF Asks
  <2> QED BY <2>2, <2>3
<1>10. CASE ResumeFails
  <2>1. pc = "resume" /\ pc' = "fresh" /\ got' = "none" /\ Asks("fresh", 0, {})
    BY <1>1, <1>4, <1>7, <1>10 DEF ResumeFails
  <2> QED BY <2>1 DEF Asks
<1>11. CASE FreshStarted
  <2>1. pc = "fresh" /\ got = "ok" /\ saved' = newThread /\ newThread # 0
    BY <1>1, <1>11, BoundsAssumption DEF FreshStarted, ThreadsNamed, IInv, TypeOK, Threads
  <2>2. CASE Stable(memory) = <<>>
    <3>1. /\ pc' = "starting" /\ got' = "none" /\ Asks("starting", newThread, SetOf(Pending(memory)))
          /\ stream' = [NoStream EXCEPT !.for = sent]
      BY <1>5, <1>7, <1>11, <2>2 DEF FreshStarted
    <3> QED BY <2>1, <3>1 DEF Asks
  <2>3. CASE Stable(memory) # <<>>
    <3>1. pc' = "inject" /\ got' = "none" /\ Asks("inject", newThread, SetOf(Stable(memory)))
      BY <1>3, <1>4, <1>7, <1>11, <2>3 DEF FreshStarted
    <3> QED BY <1>11, <2>1, <3>1 DEF Asks
  <2> QED BY <2>2, <2>3
<1>12. CASE Injected
  <2>1. pc = "inject" /\ got = "ok" /\ saved' = saved /\ thread = saved /\ saved # 0
    BY <1>1, <1>12 DEF Injected, ThreadKnown
  <2>2. /\ pc' = "starting" /\ got' = "none" /\ Asks("starting", thread, SetOf(Pending(memory)))
        /\ stream' = [NoStream EXCEPT !.for = sent]
    BY <1>5, <1>7, <1>12 DEF Injected
  <2> QED BY <2>1, <2>2 DEF Asks
<1>13. CASE TurnAccepted
  BY <1>13 DEF TurnAccepted
<1>14. CASE RequestFails \/ TurnEnds \/ Abandoned \/ Drained
  <2>1. Leave
    BY <1>14 DEF RequestFails, TurnEnds, Abandoned, Drained
  <2> QED BY <1>1, <1>6, <2>1 DEF Done
<1>15. CASE TurnTimesOut
  <2>1. pc = "running" /\ saved' = saved /\ thread = saved /\ saved # 0
    BY <1>1, <1>15 DEF TurnTimesOut, ThreadKnown, Turning, InTurn
  <2>2. pc' = "abandoning" /\ got' = "none" /\ Asks("abandoning", thread, {})
    BY <1>1, <1>4, <1>7, <1>15 DEF TurnTimesOut
  <2> QED BY <2>1, <2>2 DEF Asks
<1>16. CASE StopRequested
  BY <1>16 DEF StopRequested
<1>17. CASE Stop
  <2>1. CASE pc = "running"
    <3>1. saved' = saved /\ thread = saved /\ saved # 0 /\ Request("stopping", thread, {})
      BY <1>1, <1>17, <2>1 DEF Stop, ThreadKnown, Turning, InTurn
    <3>2. pc' = "stopping" /\ got' = "none" /\ Asks("stopping", thread, {})
      BY <1>1, <1>4, <1>7, <3>1
    <3> QED BY <2>1, <3>1, <3>2 DEF Asks
  <2>2. CASE pc # "running"
    <3>1. Leave
      BY <1>17, <2>2 DEF Stop
    <3> QED BY <1>1, <1>6, <3>1 DEF Done
  <2> QED BY <2>1, <2>2
<1> QED BY <1>8, <1>9, <1>10, <1>11, <1>12, <1>13, <1>14, <1>15, <1>16, <1>17 DEF Llm

-----------------------------------------------------------------------------
(* Threads *)

\* What a thread holds, it holds for the client that saved it.
LEMMA ItemsGrow ==
    ASSUME IInv, Serve \/ Model
    PROVE  /\ created' \in Nat /\ created <= created'
           /\ \A h \in Threads : items'[h] # {} => h <= saved
           /\ \A h \in Threads : items[h] \subseteq items'[h]
<1>1. /\ TypeOK /\ ThreadKnown /\ items \in [Threads -> SUBSET Item] /\ created \in Nat
      /\ StartedKnown
  BY DEF IInv, TypeOK
<1>2. ASSUME NEW h \in Threads, NEW k \in live[h] PROVE h <= saved
  <2>1. k \in Messages /\ items[h] # {}
    BY <1>1, <1>2 DEF TypeOK, StartedKnown, Started
  <2> QED BY <1>1, <2>1 DEF ThreadKnown
<1>3. CASE ServeInject \/ ServeTurn
  <2> DEFINE m == Head(toServer)
  <2>1. m.h \in Threads /\ m.h <= saved
    BY <1>3, HeadThread DEF ServeInject, ServeTurn, Serves
  <2>2. items' = [items EXCEPT ![m.h] = @ \cup m.set] /\ created' = created
    BY <1>3 DEF ServeInject, ServeTurn
  <2> QED BY <1>1, <2>1, <2>2 DEF ThreadKnown
<1>4. CASE ServeReply
  <2>1. /\ created' = created
        /\ \/ items' = items
           \/ \E h \in Threads, k \in Messages :
                k \in live[h] /\ items' = [items EXCEPT ![h] = @ \cup {<<"call", k>>}]
    BY <1>4, ReplyEffect
  <2> QED BY <1>1, <1>2, <2>1 DEF ThreadKnown
<1>5. CASE Model
  <2>1. PICK h \in Threads, k \in Messages :
          CallTool(h, k) \/ RunNative(h, k) \/ Say(h, k) \/ Complete(h, k)
    BY <1>5 DEF Model
  <2>2. k \in live[h] /\ created' = created
        /\ items' \in {items, [items EXCEPT ![h] = @ \cup {<<"call", k>>}],
                       [items EXCEPT ![h] = @ \cup {<<"answer", k>>}]}
    BY <2>1 DEF CallTool, RunNative, Say, Complete
  <2> QED BY <1>1, <1>2, <2>2 DEF ThreadKnown
<1>6. CASE ServeRefused \/ ServeResume \/ ServeNew \/ ServeInterrupt
  <2>1. items' = items /\ created' \in {created, created + 1}
    BY <1>6 DEF ServeRefused, ServeResume, ServeNew, ServeInterrupt, serverVars
  <2> QED BY <1>1, <2>1 DEF ThreadKnown
<1> QED BY <1>3, <1>4, <1>5, <1>6 DEF Serve

LEMMA KeepsThreadKnown ==
    ASSUME IInv, Next
    PROVE  ThreadKnown'
<1>1. TypeOK /\ ThreadKnown /\ saved \in Nat /\ created \in Nat
      /\ saved \in Threads \cup {0} /\ thread \in Threads \cup {0}
  BY BoundsAssumption DEF IInv, TypeOK, Threads
<1>2. CASE UserTurn
  BY <1>1, <1>2 DEF UserTurn, ThreadKnown, Turning, InTurn, serverVars
<1>3. CASE Resumed
  <2>1. pc = "resume" /\ saved # 0 /\ thread' = saved /\ UNCHANGED <<saved, created, items>>
    BY <1>1, <1>3 DEF Resumed, ThreadKnown, serverVars
  <2>2. \/ pc' = "fresh" /\ handlers' = handlers \ {saved}
        \/ pc' = "starting" /\ handlers' = handlers \cup {saved}
    BY <1>3 DEF Resumed, StartTurn, Request
  <2>3. handlers' \subseteq {thread'} \ {0} /\ (pc' = "starting" => saved \in handlers')
    <3>1. handlers \subseteq {saved} \ {0}
      BY <1>1 DEF ThreadKnown
    <3> QED BY <2>1, <2>2, <3>1
  <2>4. saved' <= created' /\ \A h \in Threads : items'[h] # {} => h <= saved'
    BY <1>1, <2>1 DEF ThreadKnown
  <2> QED BY <2>1, <2>2, <2>3, <2>4 DEF ThreadKnown, Turning, InTurn
<1>4. CASE FreshStarted
  <2>1. /\ handlers' = (handlers \ {thread}) \cup {newThread} /\ thread' = newThread
        /\ saved' = newThread /\ UNCHANGED <<created, items>> /\ pc' \in {"starting", "inject"}
    BY <1>4 DEF FreshStarted, Reregistered, StartTurn, Request, serverVars
  <2>2. newThread \in Nat /\ newThread > saved /\ newThread <= created
    BY <1>1, <1>4, BoundsAssumption DEF FreshStarted, IInv, ThreadsNamed, TypeOK, Threads
  <2>3. \A h \in Threads : h \in Nat
    BY BoundsAssumption DEF Threads
  <2>4. handlers' = {newThread} /\ newThread # 0
    <3>1. handlers \subseteq {thread}
      BY <1>1 DEF ThreadKnown
    <3>2. newThread # 0
      BY <1>1, <2>2
    <3> QED BY <2>1, <3>1, <3>2
  <2>5. \A h \in Threads : items'[h] # {} => h <= saved'
    BY <1>1, <2>1, <2>2, <2>3 DEF ThreadKnown
  <2> QED BY <2>1, <2>2, <2>4, <2>5 DEF ThreadKnown, Turning, InTurn
<1>5. CASE (Llm \/ Stop) /\ ~Resumed /\ ~FreshStarted
  <2>1. UNCHANGED <<thread, saved, handlers>>
    BY <1>5 DEF Llm, Ask, ResumeFails, Injected, TurnAccepted, RequestFails, TurnEnds, TurnTimesOut,
                Abandoned, StopRequested, Drained, Stop
  <2>2. UNCHANGED <<created, items>>
    BY <1>5, LlmFrame
  <2>3. pc' \in Turning \cup {"inject"} => pc \in Turning \cup {"inject"}
    BY <1>5 DEF Llm, Ask, ResumeFails, Injected, TurnAccepted, RequestFails, TurnEnds, TurnTimesOut,
                Abandoned, StopRequested, Drained, Stop, Turning, InTurn, Leave, Request, StartTurn
  <2>4. pc' = "resume" => saved # 0
    BY <1>5 DEF Llm, Ask, ResumeFails, Injected, TurnAccepted, RequestFails, TurnEnds, TurnTimesOut,
                Abandoned, StopRequested, Drained, Stop, Leave, Request, StartTurn
  <2> QED BY <1>1, <2>1, <2>2, <2>3, <2>4 DEF ThreadKnown
<1>6. CASE Router
  BY <1>1, <1>6, RouterFrame DEF ThreadKnown
<1>7. CASE ToolTask
  <2>1. UNCHANGED <<pc, thread, saved, handlers, created, items>>
    BY <1>1, <1>7, ToolFrame DEF ToolTask
  <2> QED BY <1>1, <2>1 DEF ThreadKnown
<1>8. CASE Serve \/ Model
  <2>1. UNCHANGED <<pc, thread, saved, handlers>>
    BY <1>8, ServerFrame
  <2>2. saved' <= created' /\ \A h \in Threads : items'[h] # {} => h <= saved'
    BY <1>1, <1>8, <2>1, ItemsGrow DEF ThreadKnown
  <2> QED BY <1>1, <2>1, <2>2 DEF ThreadKnown
<1>9. CASE Die
  BY <1>1, <1>9 DEF Die, ThreadKnown, clientVars
<1>10. CASE Restart
  BY <1>1, <1>10 DEF Restart, ThreadKnown, Turning, InTurn
<1> QED BY <1>2, <1>3, <1>4, <1>5, <1>6, <1>7, <1>8, <1>9, <1>10 DEF Next

\* What the server says: an answer, a notification of a turn that runs, or its end.
LEMMA ModelSends ==
    ASSUME IInv, Model
    PROVE  \E h \in Threads, k \in Messages, t \in Notes :
            /\ k \in live[h] /\ k \notin asked
            /\ Note(t, "", h, k) \in DownMsg /\ toClient' = Append(toClient, Note(t, "", h, k))
            /\ created' = created /\ UNCHANGED <<toServer, replies, strayed>>
            /\ \/ /\ t = "tool" /\ asked' = asked \cup {k} /\ UNCHANGED <<items, live>>
                  /\ <<"call", k>> \notin items[h]
               \/ /\ t \in {"native", "suppressed"} /\ UNCHANGED <<asked, live>>
                  /\ items' = [items EXCEPT ![h] = @ \cup {<<"call", k>>}]
               \/ /\ t = "message" /\ UNCHANGED <<asked, live>>
                  /\ items' = [items EXCEPT ![h] = @ \cup {<<"answer", k>>}]
               \/ /\ t \in Final /\ UNCHANGED <<asked, items>>
                  /\ live' = [live EXCEPT ![h] = @ \ {k}]
<1>1. PICK h \in Threads, k \in Messages :
        CallTool(h, k) \/ RunNative(h, k) \/ Say(h, k) \/ Complete(h, k)
  BY DEF Model
<1>2. \A t \in Notes : Note(t, "", h, k) \in DownMsg
  BY NoteTyped
<1>3. CASE CallTool(h, k)
  BY <1>2, <1>3 DEF CallTool, Notes
<1>4. CASE RunNative(h, k)
  <2>1. PICK t \in {"native", "suppressed"} : toClient' = Append(toClient, Note(t, "", h, k))
    BY <1>4 DEF RunNative
  <2>2. t \in Notes
    BY DEF Notes
  <2> QED BY <1>2, <1>4, <2>1, <2>2 DEF RunNative
<1>5. CASE Say(h, k)
  BY <1>2, <1>5 DEF Say, Notes
<1>6. CASE Complete(h, k)
  <2>1. PICK t \in {"completed", "failed"} : toClient' = Append(toClient, Note(t, "", h, k))
    BY <1>6 DEF Complete
  <2>2. t \in Notes /\ t \in Final
    BY DEF Notes, Final
  <2> QED BY <1>2, <1>6, <2>1, <2>2 DEF Complete
<1> QED BY <1>1, <1>3, <1>4, <1>5, <1>6

\* An answer is to the request just taken.
LEMMA AnswerSends ==
    ASSUME IInv, Serve, ~ServeInterrupt, ~ServeReply
    PROVE  /\ toServer # <<>> /\ Taken /\ Head(toServer).t \in Requesting
           /\ UNCHANGED <<asked, replies>>
           /\ \E t \in {"ok", "err"}, h \in Threads \cup {0} :
                LET n == Note(t, Head(toServer).t, h, Head(toServer).k) IN
                /\ n \in DownMsg /\ toClient' = Append(toClient, n)
                /\ n.t = t /\ n.to = Head(toServer).t /\ n.h = h /\ n.k = Head(toServer).k
                /\ t = "ok" /\ n.to = "fresh" => ServeNew /\ h = created + 1
                /\ t = "ok" /\ n.to = "inject" => ServeInject
                /\ t = "ok" /\ n.to = "starting" => ServeTurn
<1>1. toServer # <<>> /\ Taken
  BY DEF Serve, ServeRefused, ServeResume, ServeNew, ServeInject, ServeTurn, Serves
<1>2. Head(toServer).t \in Requesting
  BY DEF Serve, ServeRefused, ServeResume, ServeNew, ServeInject, ServeTurn, Serves, Requesting
<1>3. \A t \in {"ok", "err"}, h \in Threads \cup {0} : Note(t, Head(toServer).t, h, Head(toServer).k) \in DownMsg
  BY <1>1, <1>2, AnswerTyped DEF IInv
<1>4. UNCHANGED <<asked, replies>>
  BY DEF Serve, ServeRefused, ServeResume, ServeNew, ServeInject, ServeTurn, serverVars
<1>5. PICK t \in {"ok", "err"}, h \in Threads \cup {0} :
        /\ toClient' = Append(toClient, Note(t, Head(toServer).t, h, Head(toServer).k))
        /\ t = "ok" /\ Head(toServer).t = "fresh" => ServeNew /\ h = created + 1
        /\ t = "ok" /\ Head(toServer).t = "inject" => ServeInject
        /\ t = "ok" /\ Head(toServer).t = "starting" => ServeTurn
  <2>1. CASE ServeRefused
    BY <2>1 DEF ServeRefused, Answer
  <2>2. CASE ServeResume
    <3>1. Head(toServer).h \in Threads /\ Head(toServer).t = "resume"
      BY <1>1, <2>2, HeadThread DEF ServeResume, Serves
    <3> QED BY <2>2, <3>1 DEF ServeResume, Answer
  <2>3. CASE ServeNew
    <3>1. created + 1 \in Threads /\ Head(toServer).t = "fresh"
      BY <2>3, BoundsAssumption DEF ServeNew, Serves, IInv, TypeOK, Threads
    <3> QED BY <2>3, <3>1 DEF ServeNew, Answer
  <2>4. CASE ServeInject
    <3>1. Head(toServer).t = "inject"
      BY <2>4 DEF ServeInject, Serves
    <3> QED BY <2>4, <3>1 DEF ServeInject, Answer
  <2>5. CASE ServeTurn
    <3>1. Head(toServer).t = "starting"
      BY <2>5 DEF ServeTurn, Serves
    <3> QED BY <2>5, <3>1 DEF ServeTurn, Answer
  <2> QED BY <2>1, <2>2, <2>3, <2>4, <2>5 DEF Serve
<1>6. LET n == Note(t, Head(toServer).t, h, Head(toServer).k) IN
      n.t = t /\ n.to = Head(toServer).t /\ n.h = h /\ n.k = Head(toServer).k
  BY DEF Note
<1> QED BY <1>1, <1>2, <1>3, <1>4, <1>5, <1>6

LEMMA ServeSends ==
    ASSUME IInv, Serve
    PROVE  toClient' = toClient \/ \E n \in DownMsg : toClient' = Append(toClient, n)
<1>1. CASE ServeInterrupt
  BY <1>1, InterruptEffect
<1>2. CASE ServeReply
  BY <1>2, ReplyEffect
<1>3. CASE ~ServeInterrupt /\ ~ServeReply
  BY <1>3, AnswerSends
<1> QED BY <1>1, <1>2, <1>3

\* The kinds of step that reach the pipe to the server.
LEMMA UpSteps ==
    ASSUME IInv, Next
    PROVE  \/ toServer' = toServer
           \/ (Llm \/ Stop) /\ \E m \in UpMsg : Write(m) /\ m.t = pc' /\ m.t # "reply"
           \/ (Router \/ ToolTask) /\ \E m \in UpMsg : Write(m) /\ m.t = "reply"
           \/ Serve /\ toServer # <<>> /\ Taken
           \/ (Die \/ Restart) /\ toServer' = <<>>
<1>1. CASE UserTurn
  BY <1>1 DEF UserTurn
<1>2. CASE Llm \/ Stop
  BY <1>2, LlmMoves DEF Requesting
<1>3. CASE Router
  <2>1. CASE RouteTool
    <3>1. toClient # <<>> /\ Head(toClient) \in DownMsg
      BY <2>1, ReadEffect DEF RouteTool, Routes, IInv
    <3>2. ToolReply(Head(toClient).k) \in UpMsg /\ ToolReply(Head(toClient).k).t = "reply"
      BY <3>1, DownKinds DEF ToolReply, UpMsg
    <3>3. toServer' = toServer \/ Write(ToolReply(Head(toClient).k))
      BY <2>1 DEF RouteTool, Decline
    <3> QED BY <1>3, <3>2, <3>3
  <2>2. CASE ~RouteTool
    BY <1>3, <2>2 DEF Router, RouteReply, RouteNotification, RouteNative, MessageShown
  <2> QED BY <2>1, <2>2
<1>4. CASE ToolTask
  <2>1. PICK k \in Messages : ToolCut(k) \/ ToolEnds(k)
    BY <1>4 DEF ToolTask
  <2> QED BY <1>4, <2>1, ToolFrame DEF IInv
<1>5. CASE Serve \/ Model
  BY <1>5, ServerFrame
<1>6. CASE Die \/ Restart
  BY <1>6 DEF Die, Restart
<1> QED BY <1>1, <1>2, <1>3, <1>4, <1>5, <1>6 DEF Next

\* The kinds of step that reach the pipe to the client.
LEMMA DownSteps ==
    ASSUME IInv, Next
    PROVE  \/ toClient' = toClient
           \/ Router /\ toClient # <<>> /\ toClient' = Tail(toClient)
           \/ (Serve \/ Model) /\ \E n \in DownMsg : toClient' = Append(toClient, n)
           \/ Restart /\ toClient' = <<>>
<1>1. CASE UserTurn \/ Die
  BY <1>1 DEF UserTurn, Die
<1>2. CASE Llm \/ Stop
  BY <1>2, LlmFrame
<1>3. CASE Router
  BY <1>3, RouterFrame
<1>4. CASE ToolTask
  BY <1>4, ToolFrame DEF ToolTask, IInv
<1>5. CASE Serve
  BY <1>5, ServeSends
<1>6. CASE Model
  BY <1>6, ModelSends
<1>7. CASE Restart
  BY <1>7 DEF Restart
<1> QED BY <1>1, <1>2, <1>3, <1>4, <1>5, <1>6, <1>7 DEF Next

\* A message to the server names the thread saved, or one saved before.
LEMMA KeepsUpNamed ==
    ASSUME IInv, Next
    PROVE  \A m \in Up' : m.t \notin {"fresh", "reply"} => m.h # 0 /\ m.h <= saved'
<1>1. /\ PipesOK /\ saved \in Nat /\ saved' \in Nat /\ saved <= saved'
      /\ \A m \in Up : m.t \notin {"fresh", "reply"} => m.h # 0 /\ m.h <= saved /\ m.h \in Nat
  <2>1. saved \in Nat /\ newThread \in Nat /\ PipesOK
    BY BoundsAssumption DEF IInv, TypeOK, Threads
  <2>2. saved' = saved \/ (FreshStarted /\ saved' = newThread)
    BY LlmFrame, RouterFrame, ToolFrame, ServerFrame
       DEF Next, Llm, Ask, Resumed, ResumeFails, FreshStarted, Injected, TurnAccepted, RequestFails, TurnEnds,
           TurnTimesOut, Abandoned, StopRequested, Drained, Stop, UserTurn, Die, Restart, ToolTask, clientVars, IInv
  <2>3. FreshStarted => newThread > saved
    BY DEF FreshStarted, IInv, ThreadsNamed
  <2>4. \A m \in Up : m \in UpMsg
    BY <2>1 DEF PipesOK, Up, SetOf
  <2>5. \A m \in Up : m.h \in Nat
    BY <2>4, BoundsAssumption DEF UpMsg, Threads
  <2> QED BY <2>1, <2>2, <2>3, <2>5 DEF IInv, ThreadsNamed
<1>2. CASE toServer' = toServer
  BY <1>1, <1>2 DEF Up
<1>3. CASE Llm \/ Stop
  <2>1. CASE toServer' = toServer
    BY <1>1, <2>1 DEF Up
  <2>2. ASSUME NEW m \in UpMsg, Write(m), m.t = pc', pc' # "fresh" => m.h = saved' /\ saved' # 0
        PROVE  \A x \in Up' : x.t \notin {"fresh", "reply"} => x.h # 0 /\ x.h <= saved'
    <3>1. Up' \subseteq Up \cup {m}
      BY <1>1, <2>2, WriteEffect
    <3> QED BY <1>1, <2>2, <3>1
  <2> QED BY <1>3, <2>1, <2>2, LlmMoves
<1>4. CASE (Router \/ ToolTask) /\ \E m \in UpMsg : Write(m) /\ m.t = "reply"
  <2>1. PICK m \in UpMsg : Write(m) /\ m.t = "reply"
    BY <1>4
  <2>2. Up' \subseteq Up \cup {m}
    BY <1>1, <2>1, WriteEffect
  <2> QED BY <1>1, <2>1, <2>2
<1>5. CASE Serve /\ toServer # <<>> /\ Taken
  <2>1. Up' \subseteq Up
    BY <1>1, <1>5, TakenEffect
  <2> QED BY <1>1, <2>1
<1>6. CASE toServer' = <<>>
  BY <1>6 DEF Up, SetOf
<1> QED BY <1>2, <1>3, <1>4, <1>5, <1>6, UpSteps

\* A thread the server answers with is one it has created, newer than the one saved.
LEMMA KeepsThreadsNamed ==
    ASSUME IInv, Next
    PROVE  ThreadsNamed'
<1> DEFINE Fresh(n) == n.t = "ok" /\ n.to = "fresh"
           Named(n) == n.h # 0 /\ n.h <= created /\ (pc = "fresh" /\ n.k = sent => n.h > saved)
           Newer == pc = "fresh" /\ got = "ok" => newThread > saved /\ newThread <= created
<1>1. /\ PipesOK /\ saved \in Nat /\ created \in Nat /\ newThread \in Nat /\ saved <= created
      /\ \A n \in Down : n \in DownMsg /\ (Fresh(n) => Named(n))
      /\ \A n \in DownMsg : n.h \in Nat
      /\ Newer
  <2>1. saved \in Nat /\ newThread \in Nat /\ created \in Nat /\ PipesOK /\ saved <= created
    BY BoundsAssumption DEF IInv, TypeOK, Threads, ThreadKnown
  <2>2. \A m \in Down : m \in DownMsg
    BY <2>1 DEF PipesOK, Down, SetOf
  <2>3. \A n \in DownMsg : n.h \in Nat
    <3> SUFFICES ASSUME NEW n \in DownMsg PROVE n.h \in Nat
      OBVIOUS
    <3>1. n.h \in Threads \cup {0}
      BY DownKinds
    <3> QED BY <3>1, BoundsAssumption DEF Threads
  <2> QED BY <2>1, <2>2, <2>3 DEF IInv, ThreadsNamed
<1>2. (\A n \in Down' : Fresh(n) => Named(n)') /\ Newer'
  <2>1. CASE UserTurn
    BY <1>1, <2>1 DEF UserTurn, Down, serverVars
  <2>2. CASE Llm \/ Stop
    <3>1. /\ Down' = Down /\ created' = created /\ sent' = sent /\ got' = "none" /\ pc # "idle"
          /\ pc' = "fresh" => "fresh" \notin Past(pc)
      BY <2>2, LlmFrame, LlmMoves DEF Down, Requesting
    <3>2. ASSUME NEW n \in Down, Fresh(n), pc' = "fresh", n.k = sent PROVE FALSE
      BY <3>1, <3>2 DEF IInv, PastOnly, Requesting
    <3> QED BY <1>1, <3>1, <3>2
  <2>3. CASE Router
    <3>1. Down' \subseteq Down /\ UNCHANGED <<pc, saved, created, sent>>
      <4>1. toClient' = toClient \/ Down' \subseteq Down
        BY <1>1, <2>3, RouterFrame, ReadEffect
      <4> QED BY <2>3, <4>1, RouterFrame DEF Down
    <3>2. ASSUME pc = "fresh", got' = "ok" PROVE newThread' > saved /\ newThread' <= created
      <4>1. CASE RouteReply
        <5> DEFINE m == Head(toClient)
        <5>1. m \in Down /\ Newest(memory) = sent
          BY <1>1, <3>2, <4>1, ReadEffect, AtHand DEF RouteReply, Routes
        <5>2. \/ UNCHANGED <<got, newThread>>
              \/ m.to = pc /\ m.k = sent /\ got' = m.t /\ newThread' = m.h
          BY <4>1, <5>1 DEF RouteReply
        <5> QED BY <1>1, <3>2, <5>1, <5>2
      <4>2. CASE ~RouteReply
        <5>1. UNCHANGED <<got, newThread>>
          BY <2>3, <4>2 DEF Router, RouteTool, RouteNotification, RouteNative, MessageShown, clientVars
        <5> QED BY <1>1, <3>2, <5>1
      <4> QED BY <4>1, <4>2
    <3> QED BY <1>1, <3>1, <3>2
  <2>4. CASE ToolTask
    <3>1. UNCHANGED <<toClient, pc, got, newThread, saved, created, sent>>
      BY <2>4, ToolFrame DEF ToolTask, IInv
    <3> QED BY <1>1, <3>1 DEF Down
  <2>5. CASE Serve \/ Model
    <3>1. UNCHANGED <<pc, got, newThread, saved, sent>> /\ created' \in Nat /\ created <= created'
      BY <2>5, ServerFrame, ItemsGrow
    <3>2. CASE toClient' = toClient
      BY <1>1, <3>1, <3>2 DEF Down
    <3>3. ASSUME NEW n \in DownMsg, toClient' = Append(toClient, n), Fresh(n) => Named(n)'
          PROVE  (\A x \in Down' : Fresh(x) => Named(x)') /\ Newer'
      <4>1. Down' = Down \cup {n}
        BY <1>1, <3>3, SentEffect
      <4> QED BY <1>1, <3>1, <3>3, <4>1
    <3>4. ASSUME NEW n \in DownMsg, n.t \in Notes PROVE ~Fresh(n)
      BY <3>4 DEF Notes
    <3>5. CASE Model
      <4>1. PICK n \in DownMsg : toClient' = Append(toClient, n) /\ n.t \in Notes
        BY <3>5, ModelSends DEF Note
      <4> QED BY <3>3, <3>4, <4>1
    <3>6. CASE ServeInterrupt \/ ServeReply
      <4>1. toClient' = toClient \/ \E n \in DownMsg : toClient' = Append(toClient, n) /\ n.t \in Notes
        BY <3>6, InterruptEffect, ReplyEffect DEF Note, Notes
      <4> QED BY <3>2, <3>3, <3>4, <4>1
    <3>7. CASE Serve /\ ~ServeInterrupt /\ ~ServeReply
      <4>1. PICK n \in DownMsg : toClient' = Append(toClient, n)
                                 /\ (Fresh(n) => ServeNew /\ n.h = created + 1)
        BY <3>7, AnswerSends
      <4>2. Fresh(n) => Named(n)'
        BY <1>1, <3>1, <4>1 DEF ServeNew
      <4> QED BY <3>3, <4>1, <4>2
    <3> QED BY <2>5, <3>5, <3>6, <3>7
  <2>6. CASE Die
    BY <1>1, <2>6 DEF Die, clientVars, Down
  <2>7. CASE Restart
    BY <2>7 DEF Restart, Down, SetOf
  <2> QED BY <2>1, <2>2, <2>3, <2>4, <2>5, <2>6, <2>7 DEF Next
<1>3. \A m \in Up' : m.t \notin {"fresh", "reply"} => m.h # 0 /\ m.h <= saved'
  BY KeepsUpNamed
<1> QED BY <1>2, <1>3 DEF ThreadsNamed

-----------------------------------------------------------------------------
(* Requests and their answers *)

LEMMA MsgsTyped ==
    ASSUME IInv
    PROVE  /\ \A m \in Up : m \in UpMsg /\ m.k \in Nat
           /\ \A n \in Down : n \in DownMsg /\ n.k \in Nat
           /\ sent \in Nat
<1>1. PipesOK /\ sent \in Nat
  BY BoundsAssumption DEF IInv, TypeOK
<1>2. \A m \in Up : m \in UpMsg
  BY <1>1 DEF PipesOK, Up, SetOf
<1>3. \A n \in Down : n \in DownMsg
  BY <1>1 DEF PipesOK, Down, SetOf
<1>4. \A n \in DownMsg : n.k \in Messages
  BY DownKinds
<1> QED BY <1>1, <1>2, <1>3, <1>4, BoundsAssumption DEF UpMsg, Messages

\* A message the server adds is a notification, or answers the request it took.
LEMMA ServerSays ==
    ASSUME IInv, Serve \/ Model, NEW n \in DownMsg, toClient' = Append(toClient, n)
    PROVE  \/ n.t \in Notes /\ n.to \notin Requesting
           \/ /\ Serve /\ ~ServeInterrupt /\ ~ServeReply /\ toServer # <<>> /\ Taken
              /\ Head(toServer) \in Up
              /\ n.t \in {"ok", "err"} /\ n.to = Head(toServer).t /\ n.k = Head(toServer).k
              /\ n.to \in Requesting
<1>1. PipesOK
  BY DEF IInv
<1>2. \A t \in Notes, h \in Threads, k \in Messages :
        Note(t, "", h, k) \in DownMsg /\ Note(t, "", h, k).t \in Notes /\ Note(t, "", h, k).to \notin Requesting
  BY NoteTyped DEF Note, Requesting
<1>3. ASSUME NEW m \in DownMsg, toClient' = Append(toClient, m) PROVE n = m
  <2>1. toClient \in Seq(DownMsg)
    BY <1>1 DEF PipesOK
  <2>2. Append(toClient, m)[Len(toClient) + 1] = m /\ Append(toClient, n)[Len(toClient) + 1] = n
    BY <2>1
  <2> QED BY <1>3, <2>2
<1>4. toClient' # toClient
  <2>1. toClient \in Seq(DownMsg)
    BY <1>1 DEF PipesOK
  <2>2. Len(Append(toClient, n)) = Len(toClient) + 1 /\ Len(toClient) \in Nat
    BY <2>1
  <2> QED BY <2>2
<1>5. CASE Model
  <2>1. PICK h \in Threads, k \in Messages, t \in Notes : toClient' = Append(toClient, Note(t, "", h, k))
    BY <1>5, ModelSends
  <2> QED BY <1>2, <1>3, <2>1
<1>6. CASE ServeInterrupt
  <2>1. PICK h \in Threads, k \in Messages : toClient' = Append(toClient, Note("completed", "", h, k))
    BY <1>4, <1>6, InterruptEffect
  <2> QED BY <1>2, <1>3, <2>1 DEF Notes
<1>7. CASE ServeReply
  <2>1. PICK h \in Threads, k \in Messages : toClient' = Append(toClient, Note("call", "", h, k))
    BY <1>4, <1>7, ReplyEffect
  <2> QED BY <1>2, <1>3, <2>1 DEF Notes
<1>8. CASE Serve /\ ~ServeInterrupt /\ ~ServeReply
  <2>1. toServer # <<>> /\ Taken /\ Head(toServer).t \in Requesting
    BY <1>8, AnswerSends
  <2>2. Head(toServer) \in Up
    BY <1>1, <2>1, TakenEffect
  <2>3. PICK m \in DownMsg : /\ toClient' = Append(toClient, m) /\ m.t \in {"ok", "err"}
                             /\ m.to = Head(toServer).t /\ m.k = Head(toServer).k
    BY <1>8, AnswerSends
  <2>4. n = m
    BY <1>3, <2>3
  <2> QED BY <1>8, <2>1, <2>2, <2>3, <2>4
<1> QED BY <1>5, <1>6, <1>7, <1>8

LEMMA KeepsPastOnly ==
    ASSUME IInv, Next
    PROVE  PastOnly'
<1> DEFINE Fine(t, k) == k <= sent /\ (k = sent /\ pc # "idle" => t \in Past(pc))
<1>1. /\ PipesOK /\ sent \in Nat
      /\ \A m \in Up : m.k \in Nat /\ (m.t \in Requesting => Fine(m.t, m.k))
      /\ \A n \in Down : n.k \in Nat /\ (n.to \in Requesting => Fine(n.to, n.k))
  BY MsgsTyped DEF IInv, PastOnly
<1>2. \A m \in Up' : m \in Up \/ m.t = "reply" \/ ((Llm \/ Stop) /\ m.t = pc' /\ m.k = sent /\ pc' # pc)
  <2>1. CASE Llm \/ Stop
    <3>1. toServer' = toServer \/ \E m \in UpMsg : Write(m) /\ m.t = pc' /\ m.k = sent
      BY <2>1, LlmMoves
    <3>2. pc' # pc
      BY <2>1, LlmMoves
    <3> QED BY <1>1, <2>1, <3>1, <3>2, WriteEffect DEF Up
  <2>2. CASE toServer' = toServer
    BY <2>2 DEF Up
  <2>3. CASE \E m \in UpMsg : Write(m) /\ m.t = "reply"
    BY <1>1, <2>3, WriteEffect
  <2>4. CASE toServer # <<>> /\ Taken
    BY <1>1, <2>4, TakenEffect
  <2>5. CASE toServer' = <<>>
    BY <2>5 DEF Up, SetOf
  <2> QED BY <2>1, <2>2, <2>3, <2>4, <2>5, UpSteps
<1>3. \A n \in Down' : n \in Down \/ ((Serve \/ Model) /\ n.to \notin Requesting)
                       \/ ((Serve \/ Model) /\ \E m \in Up : n.to = m.t /\ n.k = m.k)
  <2>1. ASSUME Serve \/ Model, NEW n \in DownMsg, toClient' = Append(toClient, n)
        PROVE  \A x \in Down' : \/ x \in Down
                                \/ (Serve \/ Model) /\ x.to \notin Requesting
                                \/ (Serve \/ Model) /\ \E m \in Up : x.to = m.t /\ x.k = m.k
    <3>1. Down' = Down \cup {n}
      BY <1>1, <2>1, SentEffect
    <3> QED BY <2>1, <3>1, ServerSays
  <2>2. CASE toClient' = toClient
    BY <2>2 DEF Down
  <2>3. CASE toClient # <<>> /\ toClient' = Tail(toClient)
    BY <1>1, <2>3, ReadEffect
  <2>4. CASE toClient' = <<>>
    BY <2>4 DEF Down, SetOf
  <2> QED BY <2>1, <2>2, <2>3, <2>4, DownSteps
<1>4. /\ \A t, k : k \in Nat /\ Fine(t, k) => Fine(t, k)'
      /\ Llm \/ Stop => sent' = sent /\ (pc' # pc => pc' \in Stages)
  <2>1. CASE UserTurn
    BY <1>1, <2>1 DEF UserTurn, Llm, Stop, Ask, Resumed, ResumeFails, FreshStarted, Injected, TurnAccepted,
                      RequestFails, TurnEnds, TurnTimesOut, Abandoned, StopRequested, Drained
  <2>2. CASE Llm \/ Stop
    <3>1. sent' = sent /\ pc # "idle" /\ (pc' # "idle" => Past(pc) \subseteq Past(pc')) /\ pc' \in Stages
      BY <2>2, LlmFrame, LlmMoves DEF Stages, Requesting
    <3> QED BY <3>1
  <2>3. CASE Router \/ ToolTask \/ Serve \/ Model \/ Die
    <3>1. pc' = pc /\ sent' = sent
      BY <2>3, RouterFrame, ToolFrame, ServerFrame DEF ToolTask, Die, clientVars, IInv
    <3>2. ~(Llm \/ Stop) \/ sent' = sent
      BY <3>1
    <3> QED BY <3>1
  <2>4. CASE Restart
    <3>1. pc' = "idle" /\ sent' = sent
      BY <2>4 DEF Restart
    <3> QED BY <3>1 DEF Stages
  <2> QED BY <2>1, <2>2, <2>3, <2>4 DEF Next
<1>5. \A p \in Requesting : p \in Past(p)
  BY DEF Past, Requesting
<1>6. \A m \in Up' : m.t \in Requesting => Fine(m.t, m.k)'
  <2> SUFFICES ASSUME NEW m \in Up', m.t \in Requesting PROVE Fine(m.t, m.k)'
    OBVIOUS
  <2>1. CASE m \in Up
    BY <1>1, <1>4, <2>1
  <2>2. CASE m.t = "reply"
    BY <2>2 DEF Requesting
  <2>3. CASE (Llm \/ Stop) /\ m.t = pc' /\ m.k = sent
    BY <1>1, <1>4, <1>5, <2>3
  <2> QED BY <1>2, <2>1, <2>2, <2>3
<1>7. \A n \in Down' : n.to \in Requesting => Fine(n.to, n.k)'
  BY <1>1, <1>3, <1>4
<1> QED BY <1>6, <1>7 DEF PastOnly

\* llm() asks the next thing when it has its answer, and then nothing is before it.
LEMMA NoneBefore ==
    ASSUME IInv, pc \in Requesting, got # "none"
    PROVE  \A m \in Up : m.t \notin Requesting
BY DEF IInv, Answered, Replied

LEMMA KeepsOneWrite ==
    ASSUME IInv, Next
    PROVE  OneWrite(toServer')
<1>1. PipesOK /\ OneWrite(toServer)
  BY DEF IInv
<1>2. CASE Llm \/ Stop
  <2>1. CASE toServer' = toServer
    BY <1>1, <2>1
  <2>2. ASSUME NEW m \in UpMsg, Write(m), m.t = pc', pc' \in Writing => pc \in Requesting /\ got = "ok"
        PROVE  OneWrite(toServer')
    <3>1. m.t \in Writing => \A x \in Up : x.t \notin Writing
      BY <2>2, NoneBefore DEF Writing, Requesting
    <3> QED BY <1>1, <2>2, <3>1, WriteEffect
  <2> QED BY <1>2, <2>1, <2>2, LlmMoves
<1>3. CASE \E m \in UpMsg : Write(m) /\ m.t = "reply"
  BY <1>1, <1>3, WriteEffect DEF Writing
<1>4. CASE toServer # <<>> /\ Taken
  BY <1>1, <1>4, TakenEffect
<1>5. CASE toServer' = <<>>
  BY <1>5 DEF OneWrite
<1> QED BY <1>1, <1>2, <1>3, <1>4, <1>5, UpSteps

LEMMA KeepsAnswered ==
    ASSUME IInv, Next
    PROVE  Answered'
<1>1. PipesOK /\ Answered /\ sent \in Nat /\ (pc # "idle" => sent \in Messages)
  BY AtHand, BoundsAssumption DEF IInv, TypeOK
<1>2. CASE UserTurn
  BY <1>1, <1>2 DEF UserTurn, Answered, Requesting
<1>3. CASE Llm \/ Stop
  <2>1. /\ got' = "none" /\ toClient' = toClient /\ Down' = Down /\ sent' = sent /\ pc # "idle"
        /\ sent \in Messages
    BY <1>1, <1>3, LlmFrame, LlmMoves DEF Down
  <2>2. CASE pc' \notin Requesting
    BY <2>1, <2>2 DEF Answered
  <2>3. CASE pc' \in Requesting
    <3>1. PICK m \in UpMsg : Write(m) /\ m.t = pc' /\ m.k = sent /\ pc' \notin Past(pc)
      BY <1>3, <2>3, LlmMoves DEF Requesting
    <3>2. /\ \A x \in Up : ~(x.t = pc' /\ x.k = sent)
          /\ \A n \in Down : ~(n.to = pc' /\ n.k = sent)
      BY <2>1, <2>3, <3>1 DEF IInv, PastOnly
    <3>3. LastAsked(toServer, pc', sent) /\ OneAnswer(toClient, pc', sent)
      BY <3>2, NoneAsked, NoneAnswered DEF Up, Down
    <3>4. LastAsked(toServer', pc', sent)
      BY <1>1, <2>1, <2>3, <3>1, <3>2, <3>3, WriteEffect
    <3>5. ~Replied'
      BY <2>1, <3>2 DEF Replied
    <3> QED BY <2>1, <3>3, <3>4, <3>5 DEF Answered
  <2> QED BY <2>2, <2>3
<1>4. CASE Router
  <2>1. /\ pc' = pc /\ sent' = sent /\ Down' \subseteq Down
        /\ \A m \in Up' : m \in Up \/ m.t = "reply"
        /\ \A p \in Requesting, k \in Messages : /\ LastAsked(toServer, p, k) => LastAsked(toServer', p, k)
                                                 /\ OneAnswer(toClient, p, k) => OneAnswer(toClient', p, k)
    <3>1. toServer' = toServer \/ \E m \in UpMsg : Write(m) /\ m.t = "reply"
      <4>1. CASE RouteTool
        <5>1. Head(toClient) \in DownMsg
          BY <1>1, <4>1, ReadEffect DEF RouteTool, Routes
        <5>2. ToolReply(Head(toClient).k) \in UpMsg /\ ToolReply(Head(toClient).k).t = "reply"
          BY <5>1, DownKinds DEF ToolReply, UpMsg
        <5> QED BY <4>1, <5>2 DEF RouteTool, Decline
      <4>2. CASE ~RouteTool
        BY <1>4, <4>2 DEF Router, RouteReply, RouteNotification, RouteNative, MessageShown
      <4> QED BY <4>1, <4>2
    <3>2. /\ \A m \in Up' : m \in Up \/ m.t = "reply"
          /\ \A p \in Requesting, k \in Messages : LastAsked(toServer, p, k) => LastAsked(toServer', p, k)
      <4>1. CASE toServer' = toServer
        BY <4>1 DEF Up
      <4>2. CASE \E m \in UpMsg : Write(m) /\ m.t = "reply"
        BY <1>1, <4>2, WriteEffect DEF Requesting
      <4> QED BY <3>1, <4>1, <4>2
    <3>3. /\ Down' \subseteq Down
          /\ \A p \in Requesting, k \in Messages : OneAnswer(toClient, p, k) => OneAnswer(toClient', p, k)
      <4>1. CASE toClient' = toClient
        BY <4>1 DEF Down
      <4>2. CASE toClient # <<>> /\ toClient' = Tail(toClient)
        BY <1>1, <4>2, ReadEffect
      <4> QED BY <1>4, <4>1, <4>2, RouterFrame
    <3> QED BY <1>4, <3>2, <3>3, RouterFrame
  <2>2. /\ got' # "none" => pc \in Requesting /\ \A n \in Down' : ~(n.to = pc /\ n.k = sent)
        /\ Replied' => Replied
    <3>1. CASE RouteReply
      <4> DEFINE m == Head(toClient)
      <4>1. /\ m \in Down /\ m \in DownMsg /\ m.t \in {"ok", "err"} /\ m.to \in Requesting
            /\ toClient # <<>> /\ toClient' = Tail(toClient)
        BY <1>1, <3>1, ReadEffect, DownKinds DEF RouteReply, Routes
      <4>2. CASE UNCHANGED <<got, newThread>>
        BY <1>1, <2>1, <4>2 DEF Answered, Replied
      <4>3. CASE m.to = pc /\ m.k = Newest(memory) /\ got = "none"
        <5>1. pc # "idle" /\ m.k = sent /\ sent \in Messages
          BY <1>1, <4>1, <4>3, AtHand DEF Requesting
        <5>2. \A n \in Down' : ~(n.to = pc /\ n.k = sent)
          BY <1>1, <4>1, <4>3, <5>1, ReadEffect DEF Answered
        <5>3. Replied
          BY <4>1, <4>3, <5>1 DEF Replied
        <5> QED BY <4>1, <4>3, <5>2, <5>3
      <4> QED BY <3>1, <4>2, <4>3 DEF RouteReply
    <3>2. CASE ~RouteReply
      <4>1. got' = got
        BY <1>4, <3>2 DEF Router, RouteTool, RouteNotification, RouteNative, MessageShown, clientVars
      <4> QED BY <1>1, <2>1, <4>1 DEF Answered, Replied
    <3> QED BY <3>1, <3>2
  <2>3. pc \in Requesting => pc # "idle"
    BY DEF Requesting
  <2> QED BY <1>1, <2>1, <2>2, <2>3 DEF Answered, Requesting
<1>5. CASE ToolTask
  <2>1. PICK k \in Messages : ToolCut(k) \/ ToolEnds(k)
    BY <1>5 DEF ToolTask
  <2>2. UNCHANGED <<pc, got, sent, toClient, Down>>
    BY <2>1, ToolFrame DEF Down, IInv
  <2>3. PICK m \in UpMsg : Write(m) /\ m.t = "reply"
    BY <2>1, ToolFrame DEF IInv
  <2>4. /\ \A x \in Up' : x \in Up \/ x.t = "reply"
        /\ \A p \in Requesting, j \in Messages : LastAsked(toServer, p, j) => LastAsked(toServer', p, j)
    BY <1>1, <2>3, WriteEffect DEF Requesting
  <2>5. pc \in Requesting => pc # "idle"
    BY DEF Requesting
  <2> QED BY <1>1, <2>2, <2>4, <2>5 DEF Answered, Replied, Requesting
<1>6. CASE Serve \/ Model
  <2>1. UNCHANGED <<pc, got, sent>>
    BY <1>6, ServerFrame
  <2>2. Up' \subseteq Up /\ \A p \in Requesting, k \in Messages : LastAsked(toServer, p, k) => LastAsked(toServer', p, k)
    <3>1. CASE toServer' = toServer
      BY <3>1 DEF Up
    <3>2. CASE toServer # <<>> /\ Taken
      BY <1>1, <3>2, TakenEffect
    <3> QED BY <1>6, <3>1, <3>2, ServerFrame
  <2>3. ASSUME NEW n \in DownMsg, toClient' = Append(toClient, n), pc \in Requesting,
               n.to = pc, n.k = sent
        PROVE  ~Replied /\ \A x \in Up' : x.t \notin Requesting
    <3>1. /\ toServer # <<>> /\ Taken /\ Head(toServer) \in Up
          /\ Head(toServer).t = pc /\ Head(toServer).k = sent
      BY <1>6, <2>3, ServerSays
    <3>2. ~Replied
      BY <1>1, <2>3, <3>1 DEF Answered
    <3>3. sent \in Messages /\ LastAsked(toServer, pc, sent)
      BY <1>1, <2>3 DEF Answered, Requesting
    <3>4. \A x \in Up' : x.t \notin Requesting
      BY <1>1, <2>3, <3>1, <3>3, TakenEffect
    <3> QED BY <3>2, <3>4
  <2>4. ASSUME pc \in Requesting PROVE OneAnswer(toClient', pc, sent)
    <3>1. OneAnswer(toClient, pc, sent) /\ sent \in Messages
      BY <1>1, <2>4 DEF Answered, Requesting
    <3>2. CASE toClient' = toClient
      BY <3>1, <3>2
    <3>3. ASSUME NEW n \in DownMsg, toClient' = Append(toClient, n)
          PROVE  OneAnswer(toClient', pc, sent)
      <4>1. Down' = Down \cup {n}
        BY <1>1, <3>3, SentEffect
      <4>2. n.to = pc /\ n.k = sent => \A x \in Down : ~(x.to = pc /\ x.k = sent)
        BY <2>3, <2>4, <3>3 DEF Replied
      <4> QED BY <1>1, <2>4, <3>1, <3>3, <4>2, SentEffect
    <3> QED BY <1>6, <3>2, <3>3, ServeSends, ModelSends
  <2>5. toClient' = toClient \/ \E n \in DownMsg : toClient' = Append(toClient, n) /\ Down' = Down \cup {n}
    <3>1. \A n \in DownMsg : toClient' = Append(toClient, n) => Down' = Down \cup {n}
      BY <1>1, SentEffect
    <3> QED BY <1>6, <3>1, ServeSends, ModelSends
  <2>6. pc \in Requesting /\ Replied' => Replied \/ \A x \in Up' : x.t \notin Requesting
    BY <2>1, <2>3, <2>5 DEF Replied, Down
  <2>7. ASSUME got # "none" PROVE pc \in Requesting /\ \A n \in Down' : ~(n.to = pc /\ n.k = sent)
    <3>1. pc \in Requesting /\ Replied /\ \A n \in Down : ~(n.to = pc /\ n.k = sent)
      BY <1>1, <2>7 DEF Answered, Replied
    <3> QED BY <2>3, <2>5, <3>1 DEF Down
  <2>8. pc \in Requesting => pc # "idle"
    BY DEF Requesting
  <2>9. pc \in Requesting /\ Replied' => \A x \in Up' : x.t \notin Requesting
    BY <1>1, <2>2, <2>6 DEF Answered
  <2>10. pc \in Requesting => LastAsked(toServer', pc, sent)
    BY <1>1, <2>2, <2>8 DEF Answered
  <2> QED BY <2>1, <2>4, <2>7, <2>9, <2>10 DEF Answered
<1>7. CASE Die
  BY <1>1, <1>7 DEF Die, clientVars, Answered, Replied, LastAsked, Up, Down, SetOf
<1>8. CASE Restart
  BY <1>8 DEF Restart, Answered, Requesting
<1> QED BY <1>2, <1>3, <1>4, <1>5, <1>6, <1>7, <1>8 DEF Next

-----------------------------------------------------------------------------
(* The memory *)

\* The memory without its first turns, ...
LEMMA Suffix ==
    ASSUME NEW m \in Seq(Item), NEW c \in 0..Len(m)
    PROVE  LET s == SubSeq(m, c + 1, Len(m)) IN
           /\ s \in Seq(Item) /\ Len(s) = Len(m) - c /\ DOMAIN s = 1..(Len(m) - c)
           /\ \A i \in DOMAIN s : i \in Nat /\ i + c \in DOMAIN m /\ s[i] = m[i + c]
OBVIOUS

\* ... and with some more.
LEMMA Longer ==
    ASSUME NEW m \in Seq(Item), NEW t \in Seq(Item)
    PROVE  /\ m \o t \in Seq(Item) /\ Len(m) \in Nat
           /\ \A i \in DOMAIN m : i \in Nat /\ i <= Len(m) /\ i \in DOMAIN (m \o t) /\ (m \o t)[i] = m[i]
           /\ \A i \in DOMAIN (m \o t) : i \in DOMAIN m \/
                (i \in Nat /\ i > Len(m) /\ i - Len(m) \in DOMAIN t /\ (m \o t)[i] = t[i - Len(m)])
           /\ \A i \in DOMAIN t : i \in Nat /\ i > 0 /\ i + Len(m) \in DOMAIN (m \o t)
                                  /\ (m \o t)[i + Len(m)] = t[i]
OBVIOUS

\* How the memory changes.
LEMMA MemorySteps ==
    ASSUME IInv, Next
    PROVE  \/ UNCHANGED <<memory, onDisk>> /\ ~UserTurn
           \/ UserTurn /\ memory' = Append(memory, <<"user", sent + 1>>) /\ onDisk' = onDisk
           \/ /\ Ask /\ sent' = sent
              /\ \E c \in 0..StableLength(memory) : memory' = SubSeq(memory, c + 1, Len(memory))
              /\ onDisk' = onDisk \/ onDisk' = memory'
           \/ /\ TurnEnds \/ Drained
              /\ pc # "idle" /\ sent' = sent /\ pc' = "idle"
              /\ onDisk' = onDisk \/ onDisk' = memory'
              /\ \E turns \in Seq(Item) :
                   /\ memory' = memory \o turns
                   /\ \A i \in DOMAIN turns : turns[i][1] # "user" /\ turns[i][2] = sent
                   /\ Drained => \E i \in DOMAIN turns : turns[i] = <<"notice", sent>>
           \/ Restart /\ memory' = onDisk /\ onDisk' = onDisk
<1>1. TypeOK /\ stream.turns \in Seq(Item) /\ memory \in Seq(Item)
  BY DEF IInv, TypeOK
<1>2. pc \in InTurn => /\ stream.for = sent
                       /\ \A i \in DOMAIN stream.turns : stream.turns[i][1] # "user" /\ stream.turns[i][2] = sent
  BY DEF IInv, StreamNow, StreamOwn
<1>3. CASE UserTurn
  BY <1>3 DEF UserTurn
<1>4. CASE Ask
  <2>1. sent' = sent
    BY <1>4 DEF Ask, faultVars
  <2>2. PICK c \in 0..StableLength(memory) :
          /\ memory' = SubSeq(memory, c + 1, Len(memory))
          /\ onDisk' = IF c = 0 THEN onDisk ELSE memory'
    BY <1>4 DEF Ask
  <2> QED BY <1>4, <2>1, <2>2
<1>5. CASE TurnEnds
  <2>1. pc = "running" /\ sent' = sent /\ pc' = "idle"
    BY <1>5 DEF TurnEnds, Leave, faultVars
  <2>2. CASE stream.result = "completed"
    <3>1. memory' = memory \o stream.turns /\ (onDisk' = onDisk \/ onDisk' = memory')
      BY <1>5, <2>2 DEF TurnEnds, Remember
    <3>2. ~Drained
      BY <2>1 DEF Drained
    <3> QED BY <1>1, <1>2, <1>5, <2>1, <3>1, <3>2 DEF InTurn
  <2>3. CASE stream.result # "completed"
    <3>1. ~UserTurn
      BY <2>1 DEF UserTurn
    <3> QED BY <1>5, <2>3, <3>1 DEF TurnEnds
  <2> QED BY <2>2, <2>3
<1>6. CASE Drained
  <2> DEFINE turns == Append(stream.turns, <<"notice", sent>>)
  <2>1. pc = "draining" /\ sent' = sent /\ pc' = "idle"
    BY <1>6 DEF Drained, Leave, faultVars
  <2>2. stream.for = sent
    BY <1>2, <2>1 DEF InTurn
  <2>3. memory' = memory \o turns /\ (onDisk' = onDisk \/ onDisk' = memory')
    BY <1>6, <2>2 DEF Drained, Remember
  <2>4. <<"notice", sent>> \in Item
    BY <2>1, AtHand, ItemsTyped
  <2>5. /\ turns \in Seq(Item) /\ Len(stream.turns) + 1 \in DOMAIN turns
        /\ turns[Len(stream.turns) + 1] = <<"notice", sent>>
        /\ \A i \in DOMAIN turns : i \in DOMAIN stream.turns \/ i = Len(stream.turns) + 1
        /\ \A i \in DOMAIN stream.turns : turns[i] = stream.turns[i]
    BY <1>1, <2>4, Pushed
  <2>6. \A i \in DOMAIN turns : turns[i][1] # "user" /\ turns[i][2] = sent
    BY <1>2, <2>1, <2>5 DEF InTurn
  <2> HIDE DEF turns
  <2> QED BY <1>6, <2>1, <2>3, <2>5, <2>6
<1>7. CASE (Llm \/ Stop) /\ ~Ask /\ ~TurnEnds /\ ~Drained
  <2>1. UNCHANGED <<memory, onDisk>>
    BY <1>7 DEF Llm, Resumed, ResumeFails, FreshStarted, Injected, TurnAccepted, RequestFails,
                TurnTimesOut, Abandoned, StopRequested, Stop
  <2>2. ~UserTurn
    BY <1>7, LlmFrame DEF UserTurn
  <2> QED BY <2>1, <2>2
<1>8. CASE (Router \/ ToolTask \/ Serve \/ Model \/ Die) /\ ~UserTurn
  BY <1>1, <1>8, RouterFrame, ToolFrame, ServerFrame DEF ToolTask, Die, clientVars
<1>9. CASE Restart
  BY <1>9 DEF Restart
<1> QED BY <1>3, <1>4, <1>5, <1>6, <1>7, <1>8, <1>9 DEF Next

\* How many messages there are, and when llm() begins.
LEMMA SentSteps ==
    ASSUME IInv, Next
    PROVE  /\ UserTurn => sent' = sent + 1 /\ pc = "idle"
           /\ ~UserTurn => sent' = sent
           /\ pc = "idle" /\ ~UserTurn => pc' = "idle"
<1>1. CASE UserTurn
  BY <1>1 DEF UserTurn
<1>2. CASE Llm \/ Stop
  BY <1>2, LlmFrame DEF UserTurn
<1>3. CASE Router \/ ToolTask \/ Serve \/ Model
  <2>1. pc' = pc /\ sent' = sent
    BY <1>3, RouterFrame, ToolFrame, ServerFrame DEF ToolTask, IInv
  <2>2. CASE UserTurn
    BY <2>2 DEF UserTurn
  <2> QED BY <2>1, <2>2
<1>4. CASE Die
  BY <1>4 DEF Die, clientVars, UserTurn
<1>5. CASE Restart
  BY <1>5 DEF Restart, UserTurn
<1> QED BY <1>1, <1>2, <1>3, <1>4, <1>5 DEF Next

LEMMA KeepsMemory ==
    ASSUME IInv, Next
    PROVE  IdsKnown' /\ AtQuestion' /\ MemoryOwn'
<1>1. /\ memory \in Seq(Item) /\ onDisk \in Seq(Item) /\ sent \in Nat /\ IdsKnown /\ AtQuestion /\ MemoryOwn
      /\ \A i \in DOMAIN memory : memory[i] \in Item /\ memory[i][2] \in Nat
      /\ Len(memory) \in Nat /\ DOMAIN memory = 1..Len(memory)
  <2>1. memory \in Seq(Item) /\ onDisk \in Seq(Item) /\ sent \in Nat
    BY BoundsAssumption DEF IInv, TypeOK
  <2>2. \A i \in DOMAIN memory : memory[i] \in Item
    BY <2>1
  <2>3. \A x \in Item : x[2] \in Nat
    BY BoundsAssumption DEF Item, Messages
  <2> QED BY <2>1, <2>2, <2>3 DEF IInv
<1>2. CASE UNCHANGED <<memory, onDisk>> /\ ~UserTurn
  <2>1. sent' = sent /\ (pc = "idle" => pc' = "idle")
    BY <1>2, SentSteps
  <2> QED BY <1>1, <1>2, <2>1 DEF IdsKnown, AtQuestion, MemoryOwn
<1>3. CASE UserTurn /\ memory' = Append(memory, <<"user", sent + 1>>) /\ onDisk' = onDisk
  <2>1. sent' = sent + 1
    BY <1>3, SentSteps
  <2>2. sent + 1 \in Messages
    BY <1>1, <1>3, BoundsAssumption DEF UserTurn, IInv, TypeOK, Messages
  <2>3. <<"user", sent + 1>> \in Item
    BY <2>2, ItemsTyped
  <2>4. /\ memory' \in Seq(Item) /\ Len(memory') = Len(memory) + 1 /\ memory'[Len(memory) + 1] = <<"user", sent + 1>>
        /\ \A i \in DOMAIN memory : i \in Nat /\ i < Len(memory) + 1 /\ memory'[i] = memory[i]
        /\ \A i \in DOMAIN memory' : i \in DOMAIN memory \/ i = Len(memory) + 1
        /\ memory' # <<>>
    BY <1>1, <1>3, <2>3, Pushed
  <2>5. IdsKnown'
    <3>1. \A i \in DOMAIN memory' : memory'[i][2] <= sent'
      BY <1>1, <2>1, <2>4 DEF IdsKnown
    <3>2. \A i \in DOMAIN onDisk' : onDisk'[i][2] <= sent'
      <4> SUFFICES ASSUME NEW i \in DOMAIN onDisk PROVE onDisk[i][2] <= sent + 1
        BY <1>3, <2>1
      <4>1. onDisk[i] \in Item /\ onDisk[i][2] <= sent
        BY <1>1 DEF IdsKnown
      <4>2. onDisk[i][2] \in Nat
        BY <4>1, BoundsAssumption DEF Item, Messages
      <4> QED BY <1>1, <4>1, <4>2
    <3> QED BY <3>1, <3>2 DEF IdsKnown
  <2>6. AtQuestion'
    BY <1>1, <2>1, <2>4 DEF AtQuestion, IdsKnown
  <2>7. MemoryOwn'
    BY <1>1, <1>3, <2>4 DEF MemoryOwn, AnswersOwn
  <2> QED BY <2>5, <2>6, <2>7
<1>4. ASSUME Ask, sent' = sent, onDisk' = onDisk \/ onDisk' = memory',
             NEW c \in 0..StableLength(memory), memory' = SubSeq(memory, c + 1, Len(memory))
      PROVE  IdsKnown' /\ AtQuestion' /\ MemoryOwn'
  <2>1. pc # "idle" /\ StableLength(memory) \in Nat /\ StableLength(memory) < Len(memory)
    BY <1>4, AtHand DEF Ask
  <2>2. c \in 0..Len(memory) /\ c \in Nat /\ c < Len(memory)
    BY <1>1, <2>1
  <2>3. /\ memory' \in Seq(Item) /\ Len(memory') = Len(memory) - c /\ DOMAIN memory' = 1..(Len(memory) - c)
        /\ \A i \in DOMAIN memory' : i \in Nat /\ i + c \in DOMAIN memory /\ memory'[i] = memory[i + c]
    BY <1>1, <1>4, <2>2, Suffix
  <2>4. IdsKnown'
    BY <1>1, <1>4, <2>3 DEF IdsKnown
  <2>5. AtQuestion'
    <3>1. memory # <<>> /\ memory[Len(memory)] = <<"user", sent>>
          /\ \A i \in DOMAIN memory : i # Len(memory) => memory[i][2] < sent
      BY <1>1, <2>1 DEF AtQuestion
    <3>2. Len(memory') \in DOMAIN memory' /\ Len(memory') + c = Len(memory) /\ memory' # <<>>
      BY <1>1, <2>2, <2>3
    <3>3. \A i \in DOMAIN memory' : i # Len(memory') => i + c # Len(memory)
      BY <1>1, <2>2, <2>3
    <3> QED BY <1>4, <2>3, <3>1, <3>2, <3>3 DEF AtQuestion
  <2>6. AnswersOwn(memory')
    <3>1. \A i, j \in DOMAIN memory' : j < i => j + c < i + c
      BY <2>2, <2>3
    <3> QED BY <1>1, <2>3, <3>1 DEF MemoryOwn, AnswersOwn
  <2> QED BY <1>1, <1>4, <2>4, <2>5, <2>6 DEF MemoryOwn
<1>5. ASSUME pc # "idle", sent' = sent, pc' = "idle", onDisk' = onDisk \/ onDisk' = memory',
             NEW turns \in Seq(Item), memory' = memory \o turns,
             \A i \in DOMAIN turns : turns[i][1] # "user" /\ turns[i][2] = sent
      PROVE  IdsKnown' /\ AtQuestion' /\ MemoryOwn'
  <2>1. /\ \A i \in DOMAIN memory : i \in Nat /\ i <= Len(memory) /\ memory'[i] = memory[i]
        /\ \A i \in DOMAIN memory' : i \in DOMAIN memory \/
             (i \in Nat /\ i > Len(memory) /\ i - Len(memory) \in DOMAIN turns /\ memory'[i] = turns[i - Len(memory)])
    BY <1>1, <1>5, Longer
  <2>2. \A i \in DOMAIN memory' : i \in DOMAIN memory \/ (memory'[i][1] # "user" /\ memory'[i][2] = sent)
    BY <1>5, <2>1
  <2>3. IdsKnown'
    <3>1. \A i \in DOMAIN memory' : memory'[i][2] <= sent'
      BY <1>1, <1>5, <2>1, <2>2 DEF IdsKnown
    <3>2. \A i \in DOMAIN onDisk' : onDisk'[i][2] <= sent'
      BY <1>1, <1>5, <3>1 DEF IdsKnown
    <3> QED BY <3>1, <3>2 DEF IdsKnown
  <2>4. AnswersOwn(memory')
    BY <1>1, <2>1, <2>2 DEF MemoryOwn, AnswersOwn, IdsKnown
  <2> QED BY <1>1, <1>5, <2>3, <2>4 DEF MemoryOwn, AtQuestion
<1>6. CASE Restart /\ memory' = onDisk /\ onDisk' = onDisk
  BY <1>1, <1>6 DEF Restart, IdsKnown, AtQuestion, MemoryOwn
<1> QED BY <1>2, <1>3, <1>4, <1>5, <1>6, MemorySteps

-----------------------------------------------------------------------------
(* What is collected *)

\* A notification that reaches llm() is of the turn it waits for.
LEMMA MineIsOwed ==
    ASSUME IInv, NEW m \in Down, m.t \in Notes, Mine(m)
    PROVE  /\ m.h = saved /\ saved \in handlers /\ saved # 0 /\ stream.for # 0
           /\ m.k = stream.for /\ m.k \in Messages
<1>1. m.h = saved /\ saved \in handlers /\ saved # 0 /\ stream.for # 0
  BY DEF Mine, IInv, ThreadKnown
<1>2. m.h \in Threads /\ m.k \in Messages
  BY MsgsTyped, DownKinds
<1>3. Owed(saved, m.k)
  BY <1>1 DEF Owed, Started, NoteOf
<1> QED BY <1>1, <1>2, <1>3 DEF IInv, OwedStream

\* What the router does to the collected turns.
LEMMA RouterStream ==
    ASSUME IInv, Router
    PROVE  /\ stream'.for = stream.for
           /\ \/ stream'.turns = stream.turns
              \/ \E t \in {"call", "answer"} : stream'.turns = Append(stream.turns, <<t, stream.for>>)
                                               /\ <<t, stream.for>> \in Item
           /\ \/ stream'.result = stream.result
              \/ LET m == Head(toClient) IN
                 /\ m \in Down /\ toClient # <<>> /\ toClient' = Tail(toClient)
                 /\ m.t \in Final /\ m.h = saved /\ saved \in handlers /\ saved # 0
                 /\ m.k = stream.for /\ stream.for # 0
           /\ held'.turn = held'.for
<1> DEFINE m == Head(toClient)
<1>1. /\ PipesOK /\ held.turn = held.for
      /\ stream \in [for : Messages \cup {0}, turns : Seq(Item), result : {"none", "completed", "failed"}]
      /\ held \in [turn : Messages \cup {0}, for : Messages \cup {0}]
  BY DEF IInv, TypeOK, StreamOwn
<1>2. CASE RouteReply \/ RouteTool
  <2>1. UNCHANGED <<stream, held>>
    BY <1>2 DEF RouteReply, RouteTool, routerVars, clientVars
  <2> QED BY <1>1, <2>1
<1>3. ASSUME RouteNotification \/ RouteNative
      PROVE  m \in Down /\ m.t \in Notes /\ toClient # <<>> /\ toClient' = Tail(toClient)
  <2>1. toClient # <<>> /\ toClient' = Tail(toClient) /\ m.t \in Notes
    BY <1>3 DEF RouteNotification, RouteNative, Routes, Notes
  <2> QED BY <1>1, <2>1, ReadEffect
<1>4. CASE RouteNative
  <2>1. CASE Mine(m) /\ m.t = "native"
    <3>1. m.k = stream.for /\ m.k \in Messages
      BY <1>3, <1>4, <2>1, MineIsOwed
    <3>2. stream' = [stream EXCEPT !.turns = Append(@, <<"call", m.k>>)] /\ held' = held
      BY <1>4, <2>1 DEF RouteNative, routerVars
    <3>3. <<"call", m.k>> \in Item
      BY <3>1, ItemsTyped
    <3>4. stream'.turns = Append(stream.turns, <<"call", stream.for>>) /\ stream'.for = stream.for
          /\ stream'.result = stream.result
      BY <1>1, <3>1, <3>2
    <3> QED BY <1>1, <3>1, <3>2, <3>3, <3>4
  <2>2. CASE ~(Mine(m) /\ m.t = "native")
    <3>1. UNCHANGED <<stream, held>>
      BY <1>4, <2>2 DEF RouteNative, routerVars
    <3> QED BY <1>1, <3>1
  <2> QED BY <2>1, <2>2
<1>5. CASE RouteNotification
  <2>1. CASE ~Mine(m)
    <3>1. UNCHANGED <<stream, held>>
      BY <1>5, <2>1 DEF RouteNotification
    <3> QED BY <1>1, <3>1
  <2>2. CASE Mine(m)
    <3>1. m.k = stream.for /\ m.k \in Messages /\ m.h = saved /\ saved \in handlers /\ saved # 0 /\ stream.for # 0
      BY <1>3, <1>5, <2>2, MineIsOwed
    <3>2. /\ m.t \in {"call", "message", "completed", "failed"}
          /\ stream' = CASE m.t = "call" -> [stream EXCEPT !.turns = Append(@, <<"call", m.k>>)]
                         [] m.t = "message" -> stream
                         [] OTHER -> [stream EXCEPT !.result = m.t]
          /\ held' = IF m.t = "message" THEN [turn |-> m.k, for |-> stream.for] ELSE held
      BY <1>5, <2>2 DEF RouteNotification, Routes
    <3>3. held'.turn = held'.for
      BY <1>1, <3>1, <3>2
    <3>4. CASE m.t = "call"
      <4>1. stream' = [stream EXCEPT !.turns = Append(@, <<"call", m.k>>)]
        BY <3>2, <3>4
      <4>2. <<"call", m.k>> \in Item
        BY <3>1, ItemsTyped
      <4>3. stream'.turns = Append(stream.turns, <<"call", stream.for>>) /\ stream'.for = stream.for
            /\ stream'.result = stream.result
        BY <1>1, <3>1, <4>1
      <4> QED BY <3>1, <3>3, <4>2, <4>3
    <3>5. CASE m.t = "message"
      BY <3>2, <3>3, <3>5
    <3>6. CASE m.t \in Final
      <4>1. stream' = [stream EXCEPT !.result = m.t]
        BY <3>2, <3>6 DEF Final
      <4>2. stream'.turns = stream.turns /\ stream'.for = stream.for
        BY <1>1, <4>1
      <4> QED BY <1>3, <1>5, <3>1, <3>3, <3>6, <4>2
    <3> QED BY <3>2, <3>4, <3>5, <3>6 DEF Final
  <2> QED BY <2>1, <2>2
<1>6. CASE MessageShown
  <2>1. held'.turn = held'.for
    BY <1>6 DEF MessageShown, NotHeld
  <2>2. CASE stream' = stream
    BY <2>1, <2>2
  <2>3. CASE stream' # stream
    <3>1. stream.for = held.for /\ stream' = [stream EXCEPT !.turns = Append(@, <<"answer", held.turn>>)]
      BY <1>6, <2>3 DEF MessageShown
    <3>2. held # NotHeld
      BY <1>6 DEF MessageShown
    <3>3. held.turn = stream.for /\ held.turn # 0
      BY <1>1, <3>1, <3>2 DEF NotHeld
    <3>4. <<"answer", held.turn>> \in Item
      BY <1>1, <3>3, ItemsTyped
    <3>5. stream'.turns = Append(stream.turns, <<"answer", stream.for>>) /\ stream'.for = stream.for
          /\ stream'.result = stream.result
      BY <1>1, <3>1, <3>3
    <3> QED BY <2>1, <3>3, <3>4, <3>5
  <2> QED BY <2>2, <2>3
<1> QED BY <1>2, <1>4, <1>5, <1>6 DEF Router

\* What the other steps do to them.
LEMMA StreamSteps ==
    ASSUME IInv, Next
    PROVE  \/ UNCHANGED <<stream, held>> /\ (pc' \in InTurn => pc \in InTurn /\ sent' = sent)
           \/ Router
           \/ /\ pc' = "starting" /\ stream' = [NoStream EXCEPT !.for = sent] /\ sent' = sent
              /\ held' = held /\ Llm
           \/ /\ pc' \in {"idle", "abandoning"} /\ stream' = NoStream /\ held' \in {held, NotHeld}
<1>1. CASE UserTurn
  BY <1>1 DEF UserTurn, InTurn, routerVars
<1>2. CASE Llm \/ Stop
  <2>1. held' = held /\ sent' = sent
    BY <1>2, LlmFrame
  <2>2. CASE pc' = "starting"
    <3>1. ~Stop
      BY <2>2 DEF Stop, Request, Leave
    <3> QED BY <1>2, <2>1, <2>2, <3>1, LlmMoves
  <2>3. CASE pc' # "starting"
    <3>1. CASE Ask \/ Resumed \/ ResumeFails \/ FreshStarted \/ Injected
      <4>1. pc' \in {"resume", "fresh", "inject"}
        BY <2>3, <3>1 DEF Ask, Resumed, ResumeFails, FreshStarted, Injected, Request, StartTurn
      <4>2. stream' = stream
        BY <2>3, <3>1 DEF Ask, Resumed, ResumeFails, FreshStarted, Injected, Request, StartTurn
      <4> QED BY <2>1, <4>1, <4>2 DEF InTurn
    <3>2. CASE TurnAccepted \/ StopRequested \/ Abandoned
      BY <2>1, <3>2 DEF TurnAccepted, StopRequested, Abandoned, Leave, InTurn
    <3>3. CASE RequestFails \/ TurnEnds \/ Drained
      BY <2>1, <3>3 DEF RequestFails, TurnEnds, Drained, Leave, InTurn
    <3>4. CASE TurnTimesOut
      BY <2>1, <3>4 DEF TurnTimesOut, Request
    <3>5. CASE Stop
      BY <2>1, <3>5 DEF Stop, Request, Leave, InTurn
    <3> QED BY <1>2, <3>1, <3>2, <3>3, <3>4, <3>5 DEF Llm
  <2> QED BY <2>2, <2>3
<1>3. CASE Router
  BY <1>3
<1>4. CASE ToolTask \/ Serve \/ Model
  BY <1>4, ToolFrame, ServerFrame DEF ToolTask, IInv
<1>5. CASE Die
  BY <1>5 DEF Die, clientVars, routerVars
<1>6. CASE Restart
  BY <1>6 DEF Restart
<1> QED BY <1>1, <1>2, <1>3, <1>4, <1>5, <1>6 DEF Next

LEMMA KeepsStream ==
    ASSUME IInv, Next
    PROVE  StreamOwn' /\ StreamNow'
<1>1. /\ StreamOwn /\ StreamNow /\ stream.turns \in Seq(Item)
      /\ stream \in [for : Messages \cup {0}, turns : Seq(Item), result : {"none", "completed", "failed"}]
  BY DEF IInv, TypeOK
<1>2. CASE UNCHANGED <<stream, held>> /\ (pc' \in InTurn => pc \in InTurn /\ sent' = sent)
  BY <1>1, <1>2 DEF StreamOwn, StreamNow
<1>3. CASE Router
  <2>1. pc' = pc /\ sent' = sent /\ stream'.for = stream.for /\ held'.turn = held'.for
    BY <1>3, RouterFrame, RouterStream
  <2>2. \A i \in DOMAIN stream'.turns : stream'.turns[i][1] # "user" /\ stream'.turns[i][2] = stream.for
    <3>1. CASE stream'.turns = stream.turns
      BY <1>1, <3>1 DEF StreamOwn
    <3>2. ASSUME NEW t \in {"call", "answer"}, stream'.turns = Append(stream.turns, <<t, stream.for>>),
                 <<t, stream.for>> \in Item
          PROVE  \A i \in DOMAIN stream'.turns : stream'.turns[i][1] # "user" /\ stream'.turns[i][2] = stream.for
      <4> DEFINE a == Append(stream.turns, <<t, stream.for>>)
                 n == Len(stream.turns)
      <4>1. /\ \A i \in DOMAIN stream.turns : a[i] = stream.turns[i]
            /\ \A i \in DOMAIN a : i \in DOMAIN stream.turns \/ i = n + 1
            /\ a[n + 1] = <<t, stream.for>>
        BY <1>1, <3>2, Pushed
      <4> HIDE DEF a, n
      <4>2. \A i \in DOMAIN a : a[i][1] # "user" /\ a[i][2] = stream.for
        BY <1>1, <3>2, <4>1 DEF StreamOwn
      <4> QED BY <3>2, <4>2 DEF a
    <3> QED BY <1>3, <3>1, <3>2, RouterStream
  <2> QED BY <1>1, <2>1, <2>2 DEF StreamOwn, StreamNow
<1>4. CASE /\ pc' = "starting" /\ stream' = [NoStream EXCEPT !.for = sent] /\ sent' = sent
           /\ held' = held
  <2>1. stream' = [for |-> sent, turns |-> <<>>, result |-> "none"]
    BY <1>4 DEF NoStream
  <2>2. stream'.turns = <<>> /\ stream'.for = sent
    BY <2>1
  <2> QED BY <1>1, <1>4, <2>2 DEF StreamOwn, StreamNow
<1>5. CASE pc' \in {"idle", "abandoning"} /\ stream' = NoStream /\ held' \in {held, NotHeld}
  <2>1. stream'.turns = <<>> /\ held'.turn = held'.for
    BY <1>1, <1>5 DEF NoStream, NotHeld, StreamOwn
  <2> QED BY <1>5, <2>1 DEF StreamOwn, StreamNow, InTurn
<1> QED BY <1>2, <1>3, <1>4, <1>5, StreamSteps

-----------------------------------------------------------------------------
(* What a thread owes *)

\* llm() begins a turn: where, for what, and what it says the thread holds.
Begins == /\ Llm /\ pc' = "starting" /\ pc \in {"resume", "fresh", "inject"} /\ got = "ok"

LEMMA BeginsTurn ==
    ASSUME IInv, Llm \/ Stop, NEW m \in UpMsg, Write(m), m.t = "starting", m.t = pc'
    PROVE  Begins
BY DEF Begins, Llm, Ask, Resumed, ResumeFails, FreshStarted, Injected, TurnAccepted, RequestFails,
       TurnEnds, TurnTimesOut, Abandoned, StopRequested, Drained, Stop, Leave, Request, StartTurn

\* What the client sends: a message newly in the pipe is a request of llm() or an answer to a tool.
LEMMA NewInUp ==
    ASSUME IInv, Next, NEW m \in Up', m \notin Up
    PROVE  \/ /\ Llm \/ Stop
              /\ m.t = pc' /\ m.k = sent /\ pc' # pc
              /\ pc' # "fresh" => m.h = saved' /\ saved' # 0
              /\ pc' = "inject" => m.set = SetOf(Stable(memory)) /\ FreshStarted
              /\ pc' = "starting" => /\ Begins
                                     /\ m.set = SetOf(Pending(memory)) /\ m.base = SetOf(Stable(memory))
           \/ (Router \/ ToolTask) /\ m.t = "reply"
<1>1. PipesOK
  BY DEF IInv
<1>2. CASE toServer' = toServer
  BY <1>2 DEF Up
<1>3. CASE Llm \/ Stop
  <2>1. toServer' # toServer
    BY DEF Up
  <2>2. PICK x \in UpMsg :
          /\ Write(x) /\ x.t = pc' /\ x.k = sent /\ pc' # pc
          /\ pc' # "fresh" => x.h = saved' /\ saved' # 0
          /\ pc' = "inject" => x.set = SetOf(Stable(memory)) /\ FreshStarted
          /\ pc' = "starting" => x.set = SetOf(Pending(memory)) /\ x.base = SetOf(Stable(memory))
    BY <1>3, <2>1, LlmMoves
  <2>3. m = x
    BY <1>1, <2>2, WriteEffect
  <2>4. pc' = "starting" => Begins
    BY <1>3, <2>2, BeginsTurn
  <2> QED BY <1>3, <2>2, <2>3, <2>4
<1>4. CASE (Router \/ ToolTask) /\ \E x \in UpMsg : Write(x) /\ x.t = "reply"
  BY <1>1, <1>4, WriteEffect
<1>5. CASE toServer # <<>> /\ Taken
  BY <1>1, <1>5, TakenEffect
<1>6. CASE toServer' = <<>>
  BY <1>6 DEF Up, SetOf
<1> QED BY <1>2, <1>3, <1>4, <1>5, <1>6, UpSteps

\* The turns that run, and what is said of them.
LEMMA LiveSteps ==
    ASSUME IInv, Serve \/ Model, ~ServeTurn
    PROVE  /\ \A h \in Threads : live'[h] \subseteq live[h]
           /\ strayed' = strayed
           /\ \/ toClient' = toClient /\ Down' = Down
              \/ \E n \in DownMsg :
                   toClient' = Append(toClient, n) /\ Down' = Down \cup {n} /\ n.t \in {"ok", "err"}
              \/ \E n \in DownMsg :
                   /\ toClient' = Append(toClient, n) /\ Down' = Down \cup {n}
                   /\ n.t \in Notes /\ n.h \in Threads /\ n.k \in live[n.h]
                   /\ n.t \in Final => n.k \notin live'[n.h]
<1>1. PipesOK /\ live \in [Threads -> SUBSET Messages]
  BY DEF IInv, TypeOK
<1>2. \A t \in Notes, h \in Threads, k \in Messages :
        LET n == Note(t, "", h, k) IN
        n \in DownMsg /\ n.t = t /\ n.h = h /\ n.k = k
  BY NoteTyped DEF Note
<1> DEFINE Said == \E n \in DownMsg :
                     /\ toClient' = Append(toClient, n) /\ Down' = Down \cup {n}
                     /\ n.t \in Notes /\ n.h \in Threads /\ n.k \in live[n.h]
                     /\ n.t \in Final => n.k \notin live'[n.h]
<1>7. ASSUME NEW t \in Notes, NEW h \in Threads, NEW k \in live[h],
             toClient' = Append(toClient, Note(t, "", h, k)), t \in Final => k \notin live'[h]
      PROVE  Said
  <2> DEFINE n == Note(t, "", h, k)
  <2>1. n \in DownMsg /\ n.t = t /\ n.h = h /\ n.k = k
    <3>1. k \in Messages
      BY <1>1
    <3>2. n \in DownMsg
      BY <3>1, NoteTyped
    <3> QED BY <3>2 DEF Note
  <2> HIDE DEF n
  <2>2. toClient' = Append(toClient, n)
    BY <1>7 DEF n
  <2>3. Down' = Down \cup {n}
    BY <1>1, <2>1, <2>2, SentEffect
  <2> QED BY <1>7, <2>1, <2>2, <2>3
<1> HIDE DEF Said
<1>3. CASE Model
  <2>1. PICK h \in Threads, k \in Messages, t \in Notes :
          /\ k \in live[h] /\ toClient' = Append(toClient, Note(t, "", h, k)) /\ strayed' = strayed
          /\ \/ t \notin Final /\ live' = live
             \/ t \in Final /\ live' = [live EXCEPT ![h] = @ \ {k}]
    BY <1>3, ModelSends DEF Final
  <2>3. \A g \in Threads : live'[g] \subseteq live[g]
    BY <1>1, <2>1
  <2>4. t \in Final => k \notin live'[h]
    BY <1>1, <2>1
  <2> QED BY <1>7, <2>1, <2>3, <2>4 DEF Said
<1>4. CASE ServeInterrupt
  <2> DEFINE h == Head(toServer).h
  <2>1. h \in Threads /\ strayed' = strayed
    BY <1>4, InterruptEffect
  <2>2. CASE UNCHANGED <<live, toClient>>
    BY <2>1, <2>2 DEF Down
  <2>3. ASSUME NEW k \in Messages, k \in live[h], live' = [live EXCEPT ![h] = {}],
               toClient' = Append(toClient, Note("completed", "", h, k))
        PROVE  (\A g \in Threads : live'[g] \subseteq live[g]) /\ Said
    <3>2. \A g \in Threads : live'[g] \subseteq live[g]
      BY <1>1, <2>1, <2>3
    <3>3. k \notin live'[h]
      BY <1>1, <2>1, <2>3
    <3> QED BY <1>7, <2>1, <2>3, <3>2, <3>3 DEF Notes
  <2>4. CASE ~UNCHANGED <<live, toClient>>
    <3>1. PICK k \in Messages : k \in live[h] /\ live' = [live EXCEPT ![h] = {}]
                                /\ toClient' = Append(toClient, Note("completed", "", h, k))
      BY <1>4, <2>4, InterruptEffect
    <3> QED BY <2>1, <2>3, <3>1 DEF Said
  <2> QED BY <2>2, <2>4
<1>5. CASE ServeReply
  <2>1. live' = live /\ strayed' = strayed
    BY <1>5, ReplyEffect
  <2>2. CASE toClient' = toClient
    BY <2>1, <2>2 DEF Down
  <2>3. CASE toClient' # toClient
    <3>1. PICK h \in Threads, k \in Messages :
            k \in live[h] /\ toClient' = Append(toClient, Note("call", "", h, k))
      BY <1>5, <2>3, ReplyEffect
    <3>2. Said
      BY <1>7, <3>1 DEF Notes, Final
    <3> QED BY <2>1, <3>2 DEF Said
  <2> QED BY <2>2, <2>3
<1>6. CASE Serve /\ ~ServeInterrupt /\ ~ServeReply
  <2>1. live' = live /\ strayed' = strayed
    BY <1>6 DEF Serve, ServeRefused, ServeResume, ServeNew, ServeInject, serverVars
  <2>2. PICK n \in DownMsg : toClient' = Append(toClient, n) /\ n.t \in {"ok", "err"}
    BY <1>6, AnswerSends
  <2>3. Down' = Down \cup {n}
    BY <1>1, <2>2, SentEffect
  <2> QED BY <2>1, <2>2, <2>3
<1> QED BY <1>3, <1>4, <1>5, <1>6

\* The turn of the request just taken.
LEMMA TurnBegun ==
    ASSUME IInv, ServeTurn
    PROVE  LET m == Head(toServer) IN
           /\ m \in Up /\ m.t = "starting" /\ m.h \in Threads /\ m.k \in Messages
           /\ <<"user", m.k>> \in m.set /\ m.set \subseteq Users
           /\ \A k \in Messages : ~Started(m.h, k)
           /\ items' = [items EXCEPT ![m.h] = @ \cup m.set]
           /\ live' = [live EXCEPT ![m.h] = @ \cup {m.k}]
           /\ \A n \in Down' : n \in Down \/ n.t \in {"ok", "err"}
           /\ \A x \in Up' : x \in Up /\ x.t \notin Writing
           /\ strayed' = strayed
<1> DEFINE m == Head(toServer)
<1>1. toServer # <<>> /\ m.t = "starting" /\ Taken /\ PipesOK
  BY DEF ServeTurn, Serves, IInv
<1>2. m \in Up /\ m \in UpMsg /\ m.h \in Threads /\ m.k \in Messages
  BY <1>1, TakenEffect, HeadThread DEF UpMsg
<1>3. <<"user", m.k>> \in m.set /\ m.set \subseteq Users /\ items[m.h] = m.base
  BY <1>1, <1>2 DEF IInv, StartMeant
<1>4. \A k \in Messages : ~Started(m.h, k)
  BY <1>1, <1>2 DEF IInv, StartedKnown, StartSent
<1>5. \A x \in Up' : x \in Up /\ x.t \notin Writing
  BY <1>1, TakenEffect DEF IInv, Writing
<1>6. \A n \in Down' : n \in Down \/ n.t \in {"ok", "err"}
  <2>1. ServeTurn => Serve /\ ~ServeInterrupt /\ ~ServeReply
    BY DEF Serve, ServeTurn, ServeInterrupt, ServeReply, Serves
  <2>2. PICK n \in DownMsg : toClient' = Append(toClient, n) /\ n.t \in {"ok", "err"}
    BY <2>1, AnswerSends
  <2> QED BY <1>1, <2>2, SentEffect
<1>7. /\ items' = [items EXCEPT ![m.h] = @ \cup m.set]
      /\ live' = [live EXCEPT ![m.h] = @ \cup {m.k}]
      /\ strayed' = IF items[m.h] = m.base THEN strayed ELSE strayed \cup {m.h}
  BY DEF ServeTurn
<1> QED BY <1>1, <1>2, <1>3, <1>4, <1>5, <1>6, <1>7

\* A thread comes to owe a turn only when llm() begins it.
LEMMA OwedSteps ==
    ASSUME IInv, Next, NEW h \in Threads, NEW k \in Messages
    PROVE  /\ k \in live'[h] => k \in live[h] \/ (ServeTurn /\ StartSent(h, k) /\ Head(toServer).h = h)
           /\ Started(h, k)' => Started(h, k) \/ (ServeTurn /\ StartSent(h, k) /\ Head(toServer).h = h)
           /\ StartSent(h, k)' => StartSent(h, k) \/ (Begins /\ h = saved' /\ k = sent)
           /\ Owed(h, k)' => Owed(h, k) \/ (Begins /\ h = saved' /\ k = sent)
<1>1. StartSent(h, k)' => StartSent(h, k) \/ (Begins /\ h = saved' /\ k = sent)
  <2> SUFFICES ASSUME NEW m \in Up', m.t = "starting", m.h = h, m.k = k, m \notin Up
               PROVE  Begins /\ h = saved' /\ k = sent
    BY DEF StartSent
  <2> QED BY NewInUp DEF Requesting
<1>2. /\ k \in live'[h] => k \in live[h] \/ (ServeTurn /\ StartSent(h, k) /\ Head(toServer).h = h)
      /\ NoteOf(h, k)' => Started(h, k)
  <2>1. CASE UserTurn
    BY <2>1 DEF UserTurn, serverVars, NoteOf, Started, Down
  <2>2. CASE Llm \/ Stop
    BY <2>2, LlmFrame DEF NoteOf, Started, Down
  <2>3. CASE Router
    <3>1. live' = live /\ Down' \subseteq Down
      BY <2>3, RouterFrame, ReadEffect DEF Down, IInv
    <3> QED BY <3>1 DEF NoteOf, Started
  <2>4. CASE ToolTask
    <3>1. live' = live /\ toClient' = toClient
      BY <2>4, ToolFrame DEF ToolTask, IInv
    <3> QED BY <3>1 DEF NoteOf, Started, Down
  <2>5. CASE ServeTurn
    <3> DEFINE m == Head(toServer)
    <3>1. /\ m \in Up /\ m.t = "starting" /\ m.h \in Threads
          /\ live' = [live EXCEPT ![m.h] = @ \cup {m.k}]
          /\ \A n \in Down' : n \in Down \/ n.t \in {"ok", "err"}
          /\ live \in [Threads -> SUBSET Messages]
      BY <2>5, TurnBegun DEF IInv, TypeOK
    <3>2. NoteOf(h, k)' => NoteOf(h, k)
      BY <3>1 DEF NoteOf, Notes
    <3>3. k \in live'[h] => k \in live[h] \/ (m.h = h /\ m.k = k)
      BY <3>1
    <3> QED BY <2>5, <3>1, <3>2, <3>3 DEF Started, StartSent
  <2>6. CASE (Serve \/ Model) /\ ~ServeTurn
    <3>1. live'[h] \subseteq live[h]
      BY <2>6, LiveSteps
    <3>2. CASE Down' = Down \/ \E n \in DownMsg : Down' = Down \cup {n} /\ n.t \in {"ok", "err"}
      BY <3>1, <3>2 DEF NoteOf, Started, Notes
    <3>3. CASE \E n \in DownMsg : Down' = Down \cup {n} /\ n.h \in Threads /\ n.k \in live[n.h]
      BY <3>1, <3>3 DEF NoteOf, Started
    <3> QED BY <2>6, <3>1, <3>2, <3>3, LiveSteps
  <2>7. CASE Die
    BY <2>7 DEF Die, NoteOf, Started, Down, clientVars
  <2>8. CASE Restart
    BY <2>8 DEF Restart, NoteOf, Started, Down, SetOf
  <2>9. ServeTurn => Serve
    BY DEF Serve
  <2> QED BY <2>1, <2>2, <2>3, <2>4, <2>5, <2>6, <2>7, <2>8, <2>9 DEF Next
<1>3. Started(h, k)' => Started(h, k) \/ (ServeTurn /\ StartSent(h, k) /\ Head(toServer).h = h)
  BY <1>2 DEF Started
<1> QED BY <1>1, <1>2, <1>3 DEF Owed

\* What is added to a thread: no notices, unless it owes nothing.
LEMMA ItemsSteps ==
    ASSUME IInv, Next, NEW h \in Threads
    PROVE  /\ items[h] \subseteq items'[h]
           /\ items'[h] # items[h] =>
                /\ Serve \/ Model
                /\ \/ /\ (\E k \in Messages : Started(h, k))
                      /\ \A k \in Messages : <<"notice", k>> \in items'[h] => <<"notice", k>> \in items[h]
                   \/ /\ ServeTurn /\ Head(toServer).h = h
                      /\ \A k \in Messages : <<"notice", k>> \in items'[h] => <<"notice", k>> \in items[h]
                   \/ /\ ServeInject /\ Head(toServer) \in Up /\ Head(toServer).h = h /\ Quiet(h)
                      /\ Head(toServer).t = "inject" /\ items'[h] = items[h] \cup Head(toServer).set
<1>1. items \in [Threads -> SUBSET Item] /\ PipesOK
  BY DEF IInv, TypeOK
<1>2. ASSUME items' = items
      PROVE  items[h] \subseteq items'[h] /\ items'[h] = items[h]
  BY <1>2
<1>3. ASSUME NEW g \in Threads, NEW k \in live[g], Serve \/ Model, NEW t \in {"call", "answer"},
             items' = [items EXCEPT ![g] = @ \cup {<<t, k>>}]
      PROVE  /\ items[h] \subseteq items'[h]
             /\ items'[h] # items[h] =>
                  /\ \E j \in Messages : Started(h, j)
                  /\ \A j \in Messages : <<"notice", j>> \in items'[h] => <<"notice", j>> \in items[h]
  <2>1. k \in Messages
    BY DEF IInv, TypeOK
  <2>2. CASE g = h
    BY <1>1, <1>3, <2>1, <2>2 DEF Started
  <2>3. CASE g # h
    BY <1>1, <1>3, <2>3
  <2> QED BY <2>2, <2>3
<1>4. CASE UserTurn \/ Die \/ Restart
  <2>1. items' = items
    BY <1>4 DEF UserTurn, Die, Restart, serverVars
  <2> QED BY <1>2, <2>1
<1>5. CASE Llm \/ Stop
  BY <1>2, <1>5, LlmFrame
<1>6. CASE Router
  BY <1>2, <1>6, RouterFrame
<1>7. CASE ToolTask
  <2>1. items' = items
    BY <1>7, ToolFrame DEF ToolTask, IInv
  <2> QED BY <1>2, <2>1
<1>8. CASE Model
  <2>1. PICK g \in Threads, k \in Messages :
          /\ k \in live[g]
          /\ \/ items' = items
             \/ items' = [items EXCEPT ![g] = @ \cup {<<"call", k>>}]
             \/ items' = [items EXCEPT ![g] = @ \cup {<<"answer", k>>}]
    BY <1>8, ModelSends
  <2> QED BY <1>2, <1>3, <1>8, <2>1
<1>9. CASE ServeReply
  <2>1. Serve
    BY <1>9 DEF Serve
  <2> QED BY <1>2, <1>3, <1>9, <2>1, ReplyEffect
<1>10. CASE ServeTurn
  <2> DEFINE m == Head(toServer)
  <2>1. m.h \in Threads /\ m.set \subseteq Users /\ items' = [items EXCEPT ![m.h] = @ \cup m.set] /\ Serve
    BY <1>10, TurnBegun DEF Serve
  <2>2. \A k \in Messages : <<"notice", k>> \notin Users
    BY DEF Users
  <2>3. CASE m.h = h
    BY <1>1, <1>10, <2>1, <2>2, <2>3
  <2>4. CASE m.h # h
    BY <1>1, <2>1, <2>4
  <2> QED BY <2>3, <2>4
<1>11. CASE ServeInject
  <2> DEFINE m == Head(toServer)
  <2>1. m \in Up /\ m.t = "inject" /\ m.h \in Threads /\ Serve
    BY <1>1, <1>11, TakenEffect, HeadThread DEF ServeInject, Serves, Serve
  <2>2. items' = [items EXCEPT ![m.h] = @ \cup m.set]
    BY <1>11 DEF ServeInject
  <2>3. Quiet(m.h)
    BY <2>1 DEF IInv, InjectMeant
  <2>4. CASE m.h = h
    BY <1>1, <1>11, <2>1, <2>2, <2>3, <2>4
  <2>5. CASE m.h # h
    BY <1>1, <2>2, <2>5
  <2> QED BY <2>4, <2>5
<1>12. CASE ServeRefused \/ ServeResume \/ ServeNew \/ ServeInterrupt
  <2>1. items' = items
    BY <1>12 DEF ServeRefused, ServeResume, ServeNew, ServeInterrupt, serverVars
  <2> QED BY <1>2, <2>1
<1> QED BY <1>4, <1>5, <1>6, <1>7, <1>8, <1>9, <1>10, <1>11, <1>12 DEF Next, Serve

\* Once it has begun a turn, llm() ends before it begins the next.
LEMMA TurnSteps ==
    ASSUME IInv, Next
    PROVE  /\ sent \in Nat /\ sent' \in Nat /\ sent <= sent'
           /\ \A k \in Messages : k <= sent /\ (k = sent /\ pc # "idle" => pc \in Turning) =>
                k <= sent' /\ (k = sent' /\ pc' # "idle" => pc' \in Turning)
<1>1. sent \in Nat
  BY BoundsAssumption DEF IInv, TypeOK
<1>2. CASE UserTurn
  <2>1. sent' = sent + 1
    BY <1>2, SentSteps
  <2> QED BY <1>1, <2>1, BoundsAssumption DEF Messages
<1>3. CASE ~UserTurn
  <2>1. sent' = sent /\ (pc = "idle" => pc' = "idle")
    BY <1>3, SentSteps
  <2>2. pc \in Turning => pc' \in Turning \cup {"idle"}
    <3>1. CASE Llm \/ Stop
      BY <3>1 DEF Llm, Ask, Resumed, ResumeFails, FreshStarted, Injected, TurnAccepted, RequestFails,
                TurnEnds, TurnTimesOut, Abandoned, StopRequested, Drained, Stop, Leave, Request, Turning, InTurn
    <3>2. CASE Router \/ ToolTask \/ Serve \/ Model
      BY <3>2, RouterFrame, ToolFrame, ServerFrame DEF ToolTask, IInv
    <3>3. CASE Die \/ Restart
      BY <3>3 DEF Die, Restart, clientVars
    <3> QED BY <1>3, <3>1, <3>2, <3>3 DEF Next
  <2> QED BY <1>1, <2>1, <2>2
<1> QED BY <1>2, <1>3

LEMMA MessagesNat == \A k \in Messages : k \in Nat
BY BoundsAssumption DEF Messages

\* Where llm() begins a turn the thread is idle, and holds what the memory holds.
LEMMA BeginsQuiet ==
    ASSUME IInv, Begins
    PROVE  /\ saved' \in Threads /\ Quiet(saved') /\ items[saved'] = SetOf(Stable(memory))
           /\ stream' = [NoStream EXCEPT !.for = sent]
           /\ sent \in Messages /\ UNCHANGED <<items, live, toClient, sent>>
           /\ \A m \in Up : m.t \notin Requesting
           /\ pc \notin Turning /\ pc # "idle" /\ pc' = "starting"
           /\ saved' = saved \/ newThread > saved
<1>1. /\ TypeOK /\ ThreadKnown /\ pc \in {"resume", "fresh", "inject"} /\ got = "ok" /\ pc' = "starting"
      /\ memory \in Seq(Item) /\ sent \in Nat
  BY BoundsAssumption DEF Begins, IInv, TypeOK
<1>2. \A m \in Up : m.t \notin Requesting
  BY <1>1, NoneBefore DEF Requesting
<1>3. \A h, k : ~StartSent(h, k)
  BY <1>2 DEF StartSent, Requesting
<1>4. sent \in Messages /\ stream' = [NoStream EXCEPT !.for = sent] /\ UNCHANGED <<items, live, toClient, sent>>
  BY <1>1, AtHand, LlmFrame DEF Begins, Resumed, FreshStarted, Injected, Llm, Ask, ResumeFails, TurnAccepted,
     RequestFails, TurnEnds, TurnTimesOut, Abandoned, StopRequested, Drained, StartTurn, Request, Leave
<1>5. CASE pc = "resume"
  <2>1. Resumed
    BY <1>1, <1>5 DEF Begins, Llm, Ask, Resumed, ResumeFails, FreshStarted, Injected, TurnAccepted,
       RequestFails, TurnEnds, TurnTimesOut, Abandoned, StopRequested, Drained, Fails
  <2>2. ~Diverged(saved) /\ saved' = saved
    BY <1>1, <2>1 DEF Resumed, Request
  <2>3. saved \in Threads /\ items[saved] = SetOf(Stable(memory))
    BY <1>1, <1>5, <2>2 DEF Diverged, ThreadKnown, TypeOK
  <2>4. ASSUME NEW k \in Messages, Owed(saved, k) PROVE FALSE
    <3> DEFINE n == StableLength(memory)
    <3>1. Started(saved, k) /\ <<"user", k>> \in items[saved] /\ <<"notice", k>> \notin items[saved]
      BY <1>3, <2>3, <2>4 DEF Owed, IInv, StartedKnown, OwedKnown
    <3>2. n \in 0..Len(memory) /\ Len(memory) \in Nat /\ (n > 0 => memory[n][1] # "user")
          /\ \A j \in (n + 1)..Len(memory) : memory[j][1] = "user"
      BY <1>1, StableSplit
    <3>3. PICK i \in 1..n : memory[i] = <<"user", k>>
      <4>1. <<"user", k>> \in SetOf(Stable(memory))
        BY <2>3, <3>1
      <4>2. \E i \in 1..StableLength(memory) : <<"user", k>> = memory[i]
        BY <1>1, <4>1, StableParts
      <4> QED BY <4>2
    <3>4. n \in Nat /\ n > 0 /\ i \in DOMAIN memory /\ i # n /\ n \in DOMAIN memory /\ n > i
          /\ DOMAIN memory = 1..Len(memory)
      <4>1. i # n
        BY <3>2, <3>3
      <4> HIDE DEF n
      <4>2. DOMAIN memory = 1..Len(memory)
        BY <1>1
      <4> QED BY <3>2, <4>1, <4>2
    <3>5. Open(memory, k)
      BY <1>1, <1>5, <2>3, <2>4 DEF IInv, OwedOpen, ThreadKnown
    <3>6. PICK j \in DOMAIN memory : j > i /\ memory[j] = <<"notice", k>>
      BY <3>2, <3>3, <3>4, <3>5 DEF Open
    <3> HIDE DEF n
    <3>7. j \in 1..n
      <4>1. ~(j \in (n + 1)..Len(memory))
        BY <3>2, <3>6
      <4> QED BY <3>2, <3>4, <4>1
    <3>8. memory[j] \in SetOf(Stable(memory))
      BY <1>1, <3>7, StableParts DEF n
    <3> QED BY <2>3, <3>1, <3>6, <3>8
  <2> QED BY <1>1, <1>2, <1>4, <1>5, <2>2, <2>3, <2>4 DEF Quiet, Turning, InTurn
<1>6. CASE pc = "fresh"
  <2>1. FreshStarted
    BY <1>1, <1>6 DEF Begins, Llm, Ask, Resumed, ResumeFails, FreshStarted, Injected, TurnAccepted,
       RequestFails, TurnEnds, TurnTimesOut, Abandoned, StopRequested, Drained, Fails
  <2>2. saved' = newThread /\ Stable(memory) = <<>>
    BY <1>1, <2>1 DEF FreshStarted, Request
  <2>3. newThread \in Nat /\ saved \in Nat /\ newThread > saved /\ newThread \in Threads
    BY <1>1, <1>6, BoundsAssumption DEF IInv, ThreadsNamed, TypeOK, Threads
  <2>4. items[newThread] = {}
    BY <1>1, <2>3 DEF ThreadKnown
  <2>5. SetOf(Stable(memory)) = {}
    BY <1>1, <2>2, StableParts
  <2>6. Quiet(newThread)
    BY <1>3, <2>3, <2>4 DEF Quiet, Owed, IInv, StartedKnown
  <2> QED BY <1>1, <1>2, <1>4, <1>6, <2>2, <2>3, <2>4, <2>5, <2>6 DEF Turning, InTurn
<1>7. CASE pc = "inject"
  <2>1. Injected
    BY <1>1, <1>7 DEF Begins, Llm, Ask, Resumed, ResumeFails, FreshStarted, Injected, TurnAccepted,
       RequestFails, TurnEnds, TurnTimesOut, Abandoned, StopRequested, Drained, Fails
  <2>2. saved' = saved /\ saved \in Threads
    BY <1>1, <1>7, <2>1 DEF Injected, ThreadKnown, TypeOK
  <2>3. Quiet(saved) /\ items[saved] = SetOf(Stable(memory))
    BY <1>1, <1>7 DEF IInv, InjectMeant
  <2> QED BY <1>1, <1>2, <1>4, <1>7, <2>2, <2>3 DEF Turning, InTurn
<1> QED BY <1>1, <1>5, <1>6, <1>7

\* A thread just created owes nothing.
LEMMA FreshQuiet ==
    ASSUME IInv, FreshStarted
    PROVE  /\ newThread \in Threads /\ Quiet(newThread) /\ items[newThread] = {}
           /\ pc = "fresh" /\ got = "ok" /\ saved' = newThread /\ \A m \in Up : m.t \notin Requesting
<1>1. TypeOK /\ ThreadKnown /\ pc = "fresh" /\ got = "ok" /\ saved' = newThread
  BY DEF FreshStarted, IInv
<1>2. \A m \in Up : m.t \notin Requesting
  BY <1>1, NoneBefore DEF Requesting
<1>3. newThread \in Nat /\ saved \in Nat /\ newThread > saved /\ newThread \in Threads
  BY <1>1, BoundsAssumption DEF IInv, ThreadsNamed, TypeOK, Threads
<1>4. items[newThread] = {}
  BY <1>1, <1>3 DEF ThreadKnown
<1>5. Quiet(newThread)
  BY <1>2, <1>3, <1>4 DEF Quiet, Owed, StartSent, Requesting, IInv, StartedKnown
<1> QED BY <1>1, <1>2, <1>3, <1>4, <1>5

-----------------------------------------------------------------------------
(* The turns a thread owes *)

LEMMA KeepsOwed ==
    ASSUME IInv, Next
    PROVE  OwedKnown' /\ OwedOnce' /\ StartedKnown' /\ OneLive' /\ strayed' = {}
<1>1. OwedKnown /\ OwedOnce /\ StartedKnown /\ OneLive /\ strayed = {}
      /\ live \in [Threads -> SUBSET Messages] /\ items \in [Threads -> SUBSET Item]
  BY DEF IInv, TypeOK
<1>2. ASSUME NEW h \in Threads, NEW k \in Messages, Owed(h, k)'
      PROVE  /\ k <= sent' /\ (k = sent' /\ pc' # "idle" => pc' \in Turning)
             /\ <<"notice", k>> \notin items'[h]
  <2>1. CASE Owed(h, k)
    <3>1. /\ k <= sent /\ (k = sent /\ pc # "idle" => pc \in Turning)
          /\ <<"notice", k>> \notin items[h]
      BY <1>1, <2>1 DEF OwedKnown
    <3>2. <<"notice", k>> \notin items'[h]
      <4>1. CASE items'[h] = items[h]
        BY <3>1, <4>1
      <4>2. CASE items'[h] # items[h]
        <5>1. ~Quiet(h)
          BY <2>1 DEF Quiet
        <5> QED BY <3>1, <4>2, <5>1, ItemsSteps
      <4> QED BY <4>1, <4>2
    <3> QED BY <3>1, <3>2, TurnSteps
  <2>2. CASE Begins /\ h = saved' /\ k = sent
    <3>1. /\ items' = items /\ items[h] = SetOf(Stable(memory)) /\ sent' = sent /\ pc' = "starting"
          /\ pc # "idle" /\ sent \in Nat
      BY <2>2, BeginsQuiet, MessagesNat
    <3>2. \A x \in SetOf(Stable(memory)) : x[2] < sent
      BY <3>1, AtHand
    <3>3. <<"notice", k>> \notin items'[h]
      <4> SUFFICES ASSUME <<"notice", k>> \in SetOf(Stable(memory)) PROVE FALSE
        BY <3>1
      <4>1. <<"notice", k>>[2] < sent
        BY <3>2
      <4> QED BY <2>2, <3>1, <4>1
    <3> QED BY <2>2, <3>1, <3>3 DEF Turning, InTurn
  <2> QED BY <1>2, <2>1, <2>2, OwedSteps
<1>3. ASSUME NEW h \in Threads, NEW g \in Threads, NEW k \in Messages, Owed(h, k)', Owed(g, k)'
      PROVE  g = h
  <2>1. Owed(h, k) /\ Owed(g, k) => g = h
    BY <1>1 DEF OwedOnce
  <2>2. ASSUME Begins, k = sent PROVE ~Owed(h, k) /\ ~Owed(g, k)
    <3>1. pc \notin Turning /\ pc # "idle"
      BY <2>2, BeginsQuiet
    <3> QED BY <1>1, <2>2, <3>1 DEF OwedKnown
  <2> QED BY <1>3, <2>1, <2>2, OwedSteps
<1>4. ASSUME NEW h \in Threads, NEW k \in Messages, Started(h, k)'
      PROVE  <<"user", k>> \in items'[h] /\ \A j \in Messages : ~StartSent(h, j)'
  <2>1. CASE Started(h, k)
    <3>1. <<"user", k>> \in items[h] /\ \A j \in Messages : ~StartSent(h, j)
      BY <1>1, <2>1 DEF StartedKnown
    <3>2. <<"user", k>> \in items'[h]
      BY <3>1, ItemsSteps
    <3>3. ASSUME NEW j \in Messages, StartSent(h, j)' PROVE FALSE
      <4>1. Begins /\ h = saved'
        BY <3>1, <3>3, OwedSteps
      <4>2. Quiet(h)
        BY <4>1, BeginsQuiet
      <4> QED BY <2>1, <4>2 DEF Quiet, Owed
    <3> QED BY <3>2, <3>3
  <2>2. CASE ServeTurn /\ StartSent(h, k) /\ Head(toServer).h = h
    <3> DEFINE m == Head(toServer)
    <3>1. /\ m \in Up /\ m.t = "starting" /\ <<"user", m.k>> \in m.set
          /\ items' = [items EXCEPT ![m.h] = @ \cup m.set] /\ \A x \in Up' : x.t \notin Writing
      BY <2>2, TurnBegun
    <3>2. m.k = k
      <4>1. PICK x \in Up : x.t = "starting" /\ x.h = h /\ x.k = k
        BY <2>2 DEF StartSent
      <4>2. x = m
        BY <3>1, <4>1 DEF Up, SetOf, IInv, OneWrite, Writing
      <4> QED BY <4>1, <4>2
    <3>3. <<"user", k>> \in items'[h]
      BY <1>1, <2>2, <3>1, <3>2
    <3>4. \A j \in Messages : ~StartSent(h, j)'
      BY <3>1 DEF StartSent, Writing
    <3> QED BY <3>3, <3>4
  <2> QED BY <1>4, <2>1, <2>2, OwedSteps
<1>5. ASSUME NEW h \in Threads, NEW k \in live'[h], NEW j \in live'[h]
      PROVE  k = j
  <2>1. CASE ServeTurn
    <3> DEFINE m == Head(toServer)
    <3>1. /\ m.h \in Threads /\ live' = [live EXCEPT ![m.h] = @ \cup {m.k}]
          /\ \A i \in Messages : ~Started(m.h, i)
      BY <2>1, TurnBegun
    <3>2. live[m.h] = {}
      BY <1>1, <3>1 DEF Started
    <3> HIDE DEF m
    <3>3. CASE m.h = h
      <4>1. live'[h] = {m.k}
        BY <1>1, <3>1, <3>2, <3>3
      <4> QED BY <4>1
    <3>4. CASE m.h # h
      <4>1. live'[h] = live[h]
        BY <1>1, <3>1, <3>4
      <4> QED BY <1>1, <4>1 DEF OneLive
    <3> QED BY <3>3, <3>4
  <2>2. CASE ~ServeTurn
    <3>1. live'[h] \subseteq Messages
      BY ServerTyped, OthersTyped, LlmTyped DEF TypeOK, Next
    <3>2. k \in live[h] /\ j \in live[h]
      BY <2>2, <3>1, OwedSteps
    <3> QED BY <1>1, <3>2 DEF OneLive
  <2> QED BY <2>1, <2>2
<1>6. strayed' = {}
  <2>1. CASE UserTurn \/ Llm \/ Stop \/ Router \/ ToolTask \/ Die \/ Restart
    <3>1. strayed' = strayed
      BY <2>1, LlmFrame, RouterFrame, ToolFrame DEF UserTurn, ToolTask, Die, Restart, serverVars, IInv
    <3> QED BY <1>1, <3>1
  <2>2. CASE ServeTurn
    BY <1>1, <2>2, TurnBegun
  <2>3. CASE (Serve \/ Model) /\ ~ServeTurn
    BY <1>1, <2>3, LiveSteps
  <2> QED BY <2>1, <2>2, <2>3 DEF Next
<1>7. OwedKnown'
  BY <1>2 DEF OwedKnown
<1>8. OwedOnce'
  BY <1>3 DEF OwedOnce
<1>9. StartedKnown'
  BY <1>4 DEF StartedKnown
<1>10. OneLive'
  BY <1>5 DEF OneLive
<1> QED BY <1>6, <1>7, <1>8, <1>9, <1>10

LEMMA KeepsEnded ==
    ASSUME IInv, Next
    PROVE  Ended'
<1>1. /\ PipesOK /\ FinalLast(toClient) /\ \A n \in Down : n.t \in Final => n.k \notin live[n.h]
      /\ live \in [Threads -> SUBSET Messages]
      /\ \A n \in Down : n \in DownMsg
      /\ \A n \in DownMsg : n.t \in Notes => n.h \in Threads /\ n.k \in Messages
      /\ Final \subseteq Notes
  BY MsgsTyped, DownKinds DEF IInv, Ended, TypeOK, Final, Notes
<1>2. CASE live' = live /\ toClient' = toClient
  BY <1>1, <1>2 DEF Ended, Down
<1>3. CASE UserTurn \/ Llm \/ Stop \/ ToolTask
  <2>1. live' = live /\ toClient' = toClient
    BY <1>3, LlmFrame, ToolFrame DEF UserTurn, ToolTask, serverVars, IInv
  <2> QED BY <1>2, <2>1
<1>4. CASE Router
  <2>1. live' = live /\ (toClient' = toClient \/ (toClient # <<>> /\ toClient' = Tail(toClient)))
    BY <1>4, RouterFrame
  <2>2. CASE toClient # <<>> /\ toClient' = Tail(toClient)
    BY <1>1, <2>1, <2>2, ReadEffect DEF Ended
  <2> QED BY <1>2, <2>1, <2>2
<1>5. CASE ServeTurn
  <2> DEFINE m == Head(toServer)
  <2>1. /\ m.h \in Threads /\ live' = [live EXCEPT ![m.h] = @ \cup {m.k}] /\ m.k \in Messages
        /\ \A k \in Messages : ~Started(m.h, k)
        /\ \A n \in Down' : n \in Down \/ n.t \in {"ok", "err"}
    BY <1>5, TurnBegun
  <2>2. ASSUME NEW n \in Down', n.t \in Final PROVE n.k \notin live'[n.h]
    <3>1. n \in Down /\ n.h \in Threads /\ n.k \in Messages /\ n.t \in Notes
      BY <1>1, <2>1, <2>2 DEF Final
    <3>2. n.k \notin live[n.h]
      BY <1>1, <2>2, <3>1
    <3>3. n.h # m.h
      BY <2>1, <3>1 DEF Started, NoteOf
    <3> HIDE DEF m
    <3> QED BY <1>1, <2>1, <3>1, <3>2, <3>3
  <2>3. FinalLast(toClient')
    <3>1. PICK n \in DownMsg : toClient' = Append(toClient, n) /\ n.t \in {"ok", "err"}
      <4>1. Serve /\ ~ServeInterrupt /\ ~ServeReply
        BY <1>5 DEF Serve, ServeTurn, ServeInterrupt, ServeReply, Serves
      <4> QED BY <4>1, AnswerSends
    <3>2. n.t \notin Notes
      BY <3>1 DEF Notes
    <3> QED BY <1>1, <3>1, <3>2, SentEffect
  <2> QED BY <2>2, <2>3 DEF Ended
<1>6. CASE (Serve \/ Model) /\ ~ServeTurn
  <2>1. \A h \in Threads : live'[h] \subseteq live[h]
    BY <1>6, LiveSteps
  <2>2. CASE toClient' = toClient /\ Down' = Down
    BY <1>1, <2>1, <2>2 DEF Ended
  <2>3. ASSUME NEW n \in DownMsg, toClient' = Append(toClient, n), Down' = Down \cup {n},
               n.t \in {"ok", "err"}
        PROVE  Ended'
    <3>1. n.t \notin Notes
      BY <2>3 DEF Notes
    <3>2. FinalLast(toClient')
      BY <1>1, <2>3, <3>1, SentEffect
    <3> QED BY <1>1, <2>1, <2>3, <3>1, <3>2 DEF Ended
  <2>4. ASSUME NEW n \in DownMsg, toClient' = Append(toClient, n), Down' = Down \cup {n},
               n.t \in Notes, n.h \in Threads, n.k \in live[n.h], n.t \in Final => n.k \notin live'[n.h]
        PROVE  Ended'
    <3>1. \A y \in Down : y.t \in Final => y.h # n.h \/ y.k # n.k
      BY <1>1, <2>4
    <3>2. FinalLast(toClient')
      BY <1>1, <2>4, <3>1, SentEffect
    <3> QED BY <1>1, <2>1, <2>4, <3>2 DEF Ended
  <2> QED BY <1>6, <2>2, <2>3, <2>4, LiveSteps
<1>7. CASE Die
  <2>1. live' = [h \in Threads |-> {}] /\ toClient' = toClient /\ Down' = Down
    BY <1>7 DEF Die, Down
  <2> QED BY <1>1, <2>1 DEF Ended
<1>8. CASE Restart
  BY <1>8 DEF Restart, Ended, FinalLast, Down, SetOf
<1> QED BY <1>3, <1>4, <1>5, <1>6, <1>7, <1>8 DEF Next

LEMMA KeepsStartMeant ==
    ASSUME IInv, Next
    PROVE  StartMeant'
<1>1. PipesOK /\ StartMeant /\ OneWrite(toServer)
      /\ \A m \in Up : m \in UpMsg
  BY MsgsTyped DEF IInv
<1> SUFFICES ASSUME NEW m \in Up', m.t = "starting"
             PROVE  <<"user", m.k>> \in m.set /\ m.set \subseteq Users /\ items'[m.h] = m.base
  BY DEF StartMeant
<1>2. CASE m \in Up
  <2>1. <<"user", m.k>> \in m.set /\ m.set \subseteq Users /\ items[m.h] = m.base
    BY <1>1, <1>2 DEF StartMeant
  <2>2. m.h \in Threads /\ m.k \in Messages
    BY <1>1, <1>2 DEF UpMsg, IInv, ThreadsNamed
  <2>3. \A k \in Messages : ~Started(m.h, k)
    BY <1>2, <2>2 DEF IInv, StartedKnown, StartSent
  <2>4. ASSUME ServeTurn PROVE FALSE
    BY <2>4, TurnBegun DEF Writing
  <2>5. ASSUME ServeInject PROVE FALSE
    <3>1. toServer # <<>> /\ Taken /\ Head(toServer).t = "inject"
      BY <2>5 DEF ServeInject, Serves
    <3> QED BY <1>1, <3>1, TakenEffect DEF Writing
  <2>6. items'[m.h] = items[m.h]
    BY <2>2, <2>3, <2>4, <2>5, ItemsSteps
  <2> QED BY <2>1, <2>6
<1>3. CASE m \notin Up
  <2>1. /\ Begins /\ m.k = sent /\ m.h = saved'
        /\ m.set = SetOf(Pending(memory)) /\ m.base = SetOf(Stable(memory))
    BY <1>3, NewInUp DEF Requesting
  <2>2. /\ items' = items /\ items[saved'] = SetOf(Stable(memory)) /\ pc # "idle"
    BY <2>1, BeginsQuiet
  <2>3. <<"user", sent>> \in SetOf(Pending(memory)) /\ SetOf(Pending(memory)) \subseteq Users
    BY <2>2, AtHand, StableParts DEF IInv, TypeOK
  <2> QED BY <2>1, <2>2, <2>3
<1> QED BY <1>2, <1>3

\* A thread that owes nothing owes nothing until llm() begins a turn on it.
LEMMA StaysQuiet ==
    ASSUME IInv, Next, NEW h, Quiet(h), h \in Threads, ~(Begins /\ h = saved')
    PROVE  Quiet(h)'
BY OwedSteps DEF Quiet

\* What llm() is at, and the answer it waits for.
LEMMA InjectSteps ==
    ASSUME IInv, Next, pc' = "inject"
    PROVE  \/ FreshStarted /\ got' = "none" /\ toClient' = toClient
           \/ /\ pc = "inject" /\ UNCHANGED <<memory, saved, sent>> /\ (Router \/ ToolTask \/ Serve \/ Model \/ Die)
              /\ \/ got' = got
                 \/ RouteReply /\ \E n \in Down : n.to = "inject" /\ n.k = sent /\ got' = n.t
<1>1. CASE UserTurn \/ Restart
  BY <1>1 DEF UserTurn, Restart
<1>2. CASE Llm \/ Stop
  <2>1. FreshStarted
    BY <1>2, LlmMoves DEF Requesting
  <2> QED BY <1>2, <2>1, LlmMoves, LlmFrame
<1>3. CASE Router
  <2>1. pc = "inject" /\ UNCHANGED <<memory, saved, sent>>
    BY <1>3, RouterFrame
  <2>2. CASE RouteReply
    <3>1. Head(toClient) \in Down /\ Newest(memory) = sent
      BY <2>1, <2>2, ReadEffect, AtHand DEF RouteReply, Routes, IInv
    <3> QED BY <1>3, <2>1, <2>2, <3>1 DEF RouteReply
  <2>3. CASE ~RouteReply
    <3>1. got' = got
      BY <1>3, <2>3 DEF Router, RouteTool, RouteNotification, RouteNative, MessageShown, clientVars
    <3> QED BY <1>3, <2>1, <3>1
  <2> QED BY <2>2, <2>3
<1>4. CASE ToolTask
  BY <1>4, ToolFrame DEF ToolTask, IInv
<1>5. CASE Serve \/ Model
  BY <1>5, ServerFrame
<1>6. CASE Die
  BY <1>6 DEF Die, clientVars
<1> QED BY <1>1, <1>2, <1>3, <1>4, <1>5, <1>6 DEF Next

LEMMA KeepsInjectMeant ==
    ASSUME IInv, Next
    PROVE  InjectMeant'
<1> DEFINE Done == got = "ok" \/ (\E n \in Down : n.t = "ok" /\ n.to = "inject" /\ n.k = sent)
<1>1. /\ PipesOK /\ InjectMeant /\ OneWrite(toServer) /\ \A m \in Up : m \in UpMsg
      /\ \A m \in Up : m.t = "inject" => m.h \in Threads
      /\ saved \in Threads \cup {0} /\ (pc = "inject" => saved \in Threads)
  <2>1. PipesOK /\ InjectMeant /\ OneWrite(toServer) /\ \A m \in Up : m \in UpMsg
    BY MsgsTyped DEF IInv
  <2>2. \A m \in Up : m.t = "inject" => m.h \in Threads
    BY <2>1 DEF UpMsg, IInv, ThreadsNamed
  <2> QED BY <2>1, <2>2 DEF IInv, TypeOK, ThreadKnown
<1>2. ASSUME NEW m \in Up', m.t = "inject" PROVE Quiet(m.h)'
  <2>1. CASE m \in Up
    <3>1. Quiet(m.h) /\ m.h \in Threads
      BY <1>1, <1>2, <2>1 DEF InjectMeant
    <3>2. ~Begins
      BY <1>2, <2>1, BeginsQuiet DEF Requesting
    <3> QED BY <3>1, <3>2, StaysQuiet
  <2>2. CASE m \notin Up
    <3>1. FreshStarted /\ m.h = saved' /\ pc' = "inject"
      BY <1>2, <2>2, NewInUp DEF Requesting
    <3>2. newThread \in Threads /\ Quiet(newThread) /\ saved' = newThread
      BY <3>1, FreshQuiet
    <3>3. ~Begins
      BY <3>1 DEF Begins
    <3> QED BY <3>1, <3>2, <3>3, StaysQuiet
  <2> QED BY <2>1, <2>2
<1>3. ASSUME pc' = "inject"
      PROVE  /\ Quiet(saved)'
             /\ \A m \in Up' : m.t = "inject" =>
                  m.h = saved' /\ m.set = SetOf(Stable(memory))' /\ items'[saved'] = {}
             /\ Done' => items'[saved'] = SetOf(Stable(memory))'
  <2>1. ~Begins
    BY <1>3 DEF Begins
  <2>2. CASE FreshStarted /\ got' = "none" /\ toClient' = toClient
    <3>1. /\ newThread \in Threads /\ Quiet(newThread) /\ items[newThread] = {} /\ pc = "fresh"
          /\ saved' = newThread /\ \A m \in Up : m.t \notin Requesting
      BY <2>2, FreshQuiet
    <3>2. Quiet(saved)'
      BY <2>1, <3>1, StaysQuiet
    <3>3. items' = items /\ memory' = memory /\ sent' = sent
      BY <2>2 DEF FreshStarted, serverVars, faultVars
    <3>4. \A m \in Up' : m.t = "inject" => m.h = saved' /\ m.set = SetOf(Stable(memory))
      BY <1>3, <3>1, NewInUp DEF Requesting
    <3>5. ~Done'
      <4>1. \A n \in Down : ~(n.to = "inject" /\ n.k = sent)
        BY <3>1 DEF IInv, PastOnly, Past, Requesting
      <4> QED BY <2>2, <3>3, <4>1 DEF Down
    <3> QED BY <3>1, <3>2, <3>3, <3>4, <3>5
  <2>3. CASE /\ pc = "inject" /\ UNCHANGED <<memory, saved, sent>> /\ (Router \/ ToolTask \/ Serve \/ Model \/ Die)
             /\ \/ got' = got
                \/ RouteReply /\ \E n \in Down : n.to = "inject" /\ n.k = sent /\ got' = n.t
    <3>1. /\ Quiet(saved) /\ saved \in Threads
          /\ \A m \in Up : m.t = "inject" => m.h = saved /\ m.set = SetOf(Stable(memory)) /\ items[saved] = {}
          /\ Done => items[saved] = SetOf(Stable(memory))
      BY <1>1, <2>3 DEF InjectMeant
    <3>2. Quiet(saved)'
      BY <2>1, <2>3, <3>1, StaysQuiet
    <3>3. \A m \in Up' : m.t = "inject" => m \in Up
      <4> SUFFICES ASSUME NEW m \in Up', m.t = "inject", m \notin Up PROVE FALSE
        OBVIOUS
      <4>1. pc' # pc
        BY NewInUp
      <4> QED BY <1>3, <2>3, <4>1
    <3>4. \/ items'[saved] = items[saved]
          \/ /\ ServeInject /\ items'[saved] = SetOf(Stable(memory))
             /\ \A m \in Up' : m.t # "inject"
      <4>1. CASE ServeInject /\ Head(toServer) \in Up /\ Head(toServer).t = "inject"
                 /\ items'[saved] = items[saved] \cup Head(toServer).set
        <5>1. items[saved] = {} /\ Head(toServer).set = SetOf(Stable(memory))
          BY <3>1, <4>1
        <5>2. toServer # <<>> /\ Taken
          BY <4>1 DEF ServeInject, Serves
        <5>3. \A m \in Up' : m.t # "inject"
          BY <1>1, <4>1, <5>2, TakenEffect DEF Writing
        <5> QED BY <4>1, <5>1, <5>3
      <4>2. ASSUME ServeTurn, Head(toServer).h = saved PROVE FALSE
        <5>1. StartSent(saved, Head(toServer).k) /\ Head(toServer).k \in Messages
          BY <4>2, TurnBegun DEF StartSent
        <5> QED BY <3>1, <5>1 DEF Quiet, Owed
      <4> QED BY <3>1, <4>1, <4>2, ItemsSteps DEF Quiet, Owed
    <3>5. ASSUME Done' PROVE items'[saved] = SetOf(Stable(memory))
      <4>1. CASE Done
        <5>1. items[saved] = SetOf(Stable(memory))
          BY <3>1, <4>1
        <5> QED BY <3>4, <5>1
      <4>2. CASE ~Done
        <5>1. got' # "ok"
          BY <2>3, <4>2
        <5>2. PICK n \in Down' : n.t = "ok" /\ n.to = "inject" /\ n.k = sent
          BY <2>3, <3>5, <5>1
        <5>3. n \notin Down
          BY <4>2, <5>2
        <5>4. (Serve \/ Model) /\ n \in DownMsg /\ toClient' = Append(toClient, n)
          <6>1. CASE toClient' = toClient
            BY <5>3, <6>1 DEF Down
          <6>2. CASE toClient # <<>> /\ toClient' = Tail(toClient)
            BY <1>1, <5>3, <6>2, ReadEffect
          <6>3. ASSUME Serve \/ Model, NEW x \in DownMsg, toClient' = Append(toClient, x)
                PROVE  (Serve \/ Model) /\ n \in DownMsg /\ toClient' = Append(toClient, n)
            <7>1. n = x
              BY <1>1, <5>3, <6>3, SentEffect
            <7> QED BY <6>3, <7>1
          <6>4. CASE toClient' = <<>>
            BY <6>4 DEF Down, SetOf
          <6> QED BY <6>1, <6>2, <6>3, <6>4, DownSteps
        <5>5. Serve /\ ~ServeInterrupt /\ ~ServeReply /\ Head(toServer) \in Up /\ Head(toServer).t = "inject"
          BY <5>2, <5>4, ServerSays DEF Requesting
        <5>6. ServeInject
          <6>1. PICK t \in {"ok", "err"}, h \in Threads \cup {0} :
                  LET x == Note(t, Head(toServer).t, h, Head(toServer).k) IN
                  /\ x \in DownMsg /\ toClient' = Append(toClient, x) /\ x.t = t /\ x.to = Head(toServer).t
                  /\ t = "ok" /\ x.to = "inject" => ServeInject
            BY <5>5, AnswerSends
          <6> DEFINE x == Note(t, Head(toServer).t, h, Head(toServer).k)
          <6>3. /\ x \in DownMsg /\ toClient' = Append(toClient, x) /\ x.t = t /\ x.to = Head(toServer).t
                /\ t = "ok" /\ x.to = "inject" => ServeInject
            BY <6>1
          <6> HIDE DEF x
          <6>2. x = n
            <7>1. toClient \in Seq(DownMsg)
              BY <1>1 DEF PipesOK
            <7>2. x \in DownMsg /\ n \in DownMsg
              BY <5>4, <6>3
            <7>3. Append(toClient, x)[Len(toClient) + 1] = x
              BY <7>1, <7>2, Pushed
            <7>4. Append(toClient, n)[Len(toClient) + 1] = n
              BY <7>1, <7>2, Pushed
            <7> QED BY <5>4, <6>3, <7>3, <7>4
          <6> QED BY <5>2, <5>5, <6>3, <6>2
        <5>7. Head(toServer).h = saved /\ Head(toServer).set = SetOf(Stable(memory)) /\ items[saved] = {}
          BY <3>1, <5>5
        <5>8. items' = [items EXCEPT ![Head(toServer).h] = @ \cup Head(toServer).set]
          BY <5>6 DEF ServeInject
        <5> QED BY <3>1, <5>7, <5>8 DEF IInv, TypeOK
      <4> QED BY <4>1, <4>2
    <3>6. \A m \in Up' : m.t = "inject" => m.h = saved /\ m.set = SetOf(Stable(memory)) /\ items'[saved] = {}
      BY <3>1, <3>3, <3>4
    <3> QED BY <2>3, <3>2, <3>5, <3>6 DEF Stable, StableLength
  <2> QED BY <1>3, <2>2, <2>3, InjectSteps
<1> QED BY <1>2, <1>3 DEF InjectMeant

LEMMA KeepsOwedOpen ==
    ASSUME IInv, Next
    PROVE  OwedOpen'
<1>1. /\ memory \in Seq(Item) /\ memory' \in Seq(Item) /\ onDisk \in Seq(Item) /\ sent \in Nat
      /\ saved' \in Threads \cup {0} /\ ThreadKnown /\ OwedOpen
      /\ DOMAIN memory = 1..Len(memory) /\ Len(memory) \in Nat
  <2>1. TypeOK'
    BY ServerTyped, OthersTyped, LlmTyped DEF Next
  <2> QED BY <2>1, BoundsAssumption DEF IInv, TypeOK
<1> SUFFICES ASSUME saved' # 0, NEW k \in Messages, Owed(saved, k)'
             PROVE  Open(memory, k)'
  BY DEF OwedOpen
<1>2. saved' \in Threads /\ k \in Nat
  BY <1>1, MessagesNat
<1>3. Owed(saved', k) \/ (Begins /\ k = sent)
  BY <1>2, OwedSteps
<1>4. CASE Begins
  <2>1. /\ ~Owed(saved', k) /\ pc # "idle" /\ sent' = sent
    BY <1>2, <1>4, BeginsQuiet DEF Quiet
  <2>2. k = sent
    BY <1>3, <2>1
  <2>3. memory' = memory
    BY <1>4 DEF Begins, Llm, Ask, Resumed, ResumeFails, FreshStarted, Injected, TurnAccepted, RequestFails,
       TurnEnds, TurnTimesOut, Abandoned, StopRequested, Drained, Leave
  <2>4. \A i \in DOMAIN memory : i # Len(memory) => memory[i][2] < sent
    BY <2>1 DEF IInv, AtQuestion
  <2>5. ASSUME NEW i \in DOMAIN memory, memory[i] = <<"user", sent>> PROVE i = Len(memory)
    BY <1>1, <2>4, <2>5
  <2>6. \A j \in DOMAIN memory : ~(j > Len(memory))
    BY <1>1
  <2> QED BY <2>2, <2>3, <2>5, <2>6 DEF Open
<1>5. CASE ~Begins
  <2>1. Owed(saved', k)
    BY <1>3, <1>5
  <2>2. saved' = saved
    <3>1. CASE FreshStarted
      <4>1. Quiet(newThread) /\ saved' = newThread
        BY <3>1, FreshQuiet
      <4> QED BY <2>1, <4>1 DEF Quiet
    <3>2. CASE ~FreshStarted
      BY <3>2, RouterFrame, ToolFrame, ServerFrame
         DEF Next, Llm, Ask, Resumed, ResumeFails, Injected, TurnAccepted, RequestFails, TurnEnds,
             TurnTimesOut, Abandoned, StopRequested, Drained, Stop, UserTurn, Die, Restart, ToolTask, clientVars, IInv
    <3> QED BY <3>1, <3>2
  <2>3. Open(memory, k) /\ Owed(saved, k) /\ saved \in Threads
    BY <1>1, <1>2, <2>1, <2>2 DEF OwedOpen
  <2>4. k <= sent
    BY <2>3 DEF IInv, OwedKnown
  <2>5. CASE UNCHANGED <<memory, onDisk>>
    BY <2>3, <2>5 DEF Open
  <2>6. CASE UserTurn /\ memory' = Append(memory, <<"user", sent + 1>>)
    <3>1. <<"user", sent + 1>> \in Item
      <4>1. sent + 1 \in Messages
        BY <1>1, <2>6, BoundsAssumption DEF UserTurn, IInv, TypeOK, Messages
      <4> QED BY <4>1, ItemsTyped
    <3>2. /\ Len(memory) \in Nat /\ memory'[Len(memory) + 1] = <<"user", sent + 1>>
          /\ \A i \in DOMAIN memory : i \in Nat /\ i < Len(memory) + 1 /\ i \in DOMAIN memory' /\ memory'[i] = memory[i]
          /\ \A i \in DOMAIN memory' : i \in DOMAIN memory \/ i = Len(memory) + 1
      BY <1>1, <2>6, <3>1, Pushed
    <3>3. k # sent + 1
      BY <1>1, <1>2, <2>4
    <3>4. \A i \in DOMAIN memory' : memory'[i] = <<"user", k>> => i \in DOMAIN memory /\ memory[i] = <<"user", k>>
      BY <3>2, <3>3
    <3> QED BY <2>3, <3>2, <3>4 DEF Open
  <2>7. ASSUME Ask, NEW c \in 0..StableLength(memory), memory' = SubSeq(memory, c + 1, Len(memory))
        PROVE  Open(memory, k)'
    <3>1. StableLength(memory) \in Nat /\ StableLength(memory) < Len(memory)
      BY <2>7, AtHand DEF Ask
    <3>2. c \in 0..Len(memory) /\ c \in Nat /\ c < Len(memory)
      BY <1>1, <3>1
    <3>3. /\ DOMAIN memory' = 1..(Len(memory) - c)
          /\ \A i \in DOMAIN memory' : i \in Nat /\ i + c \in DOMAIN memory /\ memory'[i] = memory[i + c]
      BY <1>1, <2>7, <3>2, Suffix
    <3> SUFFICES ASSUME NEW i \in DOMAIN memory', memory'[i] = <<"user", k>>
                 PROVE  \/ \A j \in DOMAIN memory' : j > i => memory'[j][1] = "user"
                        \/ \E j \in DOMAIN memory' : j > i /\ memory'[j] = <<"notice", k>>
      BY DEF Open
    <3>4. i \in Nat /\ i + c \in DOMAIN memory /\ memory[i + c] = <<"user", k>>
      BY <3>3
    <3>5. CASE \A j \in DOMAIN memory : j > i + c => memory[j][1] = "user"
      <4>1. \A j \in DOMAIN memory' : j > i => j + c > i + c
        BY <3>2, <3>3, <3>4
      <4> QED BY <3>3, <3>5, <4>1
    <3>6. ASSUME NEW j \in DOMAIN memory, j > i + c, memory[j] = <<"notice", k>>
          PROVE  \E l \in DOMAIN memory' : l > i /\ memory'[l] = <<"notice", k>>
      <4>1. j - c \in 1..(Len(memory) - c) /\ j - c > i /\ (j - c) + c = j
        BY <1>1, <3>2, <3>4, <3>6
      <4> QED BY <3>3, <3>6, <4>1
    <3> QED BY <2>3, <3>4, <3>5, <3>6 DEF Open
  <2>8. ASSUME NEW turns \in Seq(Item), memory' = memory \o turns, TurnEnds \/ Drained,
               \A i \in DOMAIN turns : turns[i][1] # "user" /\ turns[i][2] = sent,
               Drained => \E i \in DOMAIN turns : turns[i] = <<"notice", sent>>,
               memory' # memory
        PROVE  Open(memory, k)'
    <3>1. saved \in handlers
      BY <1>1, <2>8 DEF TurnEnds, Drained, ThreadKnown, Turning, InTurn
    <3>2. Drained
      <4> SUFFICES ASSUME TurnEnds PROVE FALSE
        BY <2>8
      <4>1. stream.result # "none"
        BY DEF TurnEnds
      <4> QED BY <2>3, <3>1, <4>1 DEF IInv, OwedStream, Quiet
    <3>3. k = sent
      <4>1. stream.for = sent /\ sent \in Messages
        BY <3>2, AtHand DEF Drained, IInv, StreamNow, InTurn
      <4> QED BY <2>3, <3>1, <4>1, MessagesNat, BoundsAssumption DEF IInv, OwedStream, Messages
    <3>4. PICK n \in DOMAIN turns : turns[n] = <<"notice", sent>>
      BY <2>8, <3>2
    <3>5. /\ \A i \in DOMAIN memory : i \in Nat /\ i <= Len(memory)
          /\ \A i \in DOMAIN memory' : i \in DOMAIN memory \/
               (i - Len(memory) \in DOMAIN turns /\ memory'[i] = turns[i - Len(memory)])
          /\ \A i \in DOMAIN turns : i \in Nat /\ i > 0 /\ i + Len(memory) \in DOMAIN memory'
                                     /\ memory'[i + Len(memory)] = turns[i]
      <4> DEFINE longer == memory \o turns
      <4>1. /\ \A i \in DOMAIN memory : i \in Nat /\ i <= Len(memory)
            /\ \A i \in DOMAIN longer : i \in DOMAIN memory \/
                 (i - Len(memory) \in DOMAIN turns /\ longer[i] = turns[i - Len(memory)])
            /\ \A i \in DOMAIN turns : i \in Nat /\ i > 0 /\ i + Len(memory) \in DOMAIN longer
                                       /\ longer[i + Len(memory)] = turns[i]
        <5>1. /\ \A i \in DOMAIN memory : i \in Nat /\ i <= Len(memory) /\ i \in DOMAIN longer /\ longer[i] = memory[i]
              /\ \A i \in DOMAIN longer : i \in DOMAIN memory \/
                   (i \in Nat /\ i > Len(memory) /\ i - Len(memory) \in DOMAIN turns /\ longer[i] = turns[i - Len(memory)])
              /\ \A i \in DOMAIN turns : i \in Nat /\ i > 0 /\ i + Len(memory) \in DOMAIN longer
                                         /\ longer[i + Len(memory)] = turns[i]
          BY <1>1, Longer
        <5> HIDE DEF longer
        <5> QED BY <5>1
      <4>2. memory' = longer
        BY <2>8
      <4> HIDE DEF longer
      <4> QED BY <4>1, <4>2
    <3>6. n + Len(memory) \in DOMAIN memory' /\ memory'[n + Len(memory)] = <<"notice", k>>
      BY <3>3, <3>4, <3>5
    <3> SUFFICES ASSUME NEW i \in DOMAIN memory', memory'[i] = <<"user", k>>
                 PROVE  n + Len(memory) > i
      BY <3>6 DEF Open
    <3>7. i \in DOMAIN memory
      BY <2>8, <3>5
    <3> QED BY <1>1, <3>5, <3>7
  <2>9. CASE Restart
    <3>1. ~StartSent(saved, k)' /\ ~NoteOf(saved, k)'
      BY <2>9 DEF Restart, StartSent, NoteOf, Up, Down, SetOf
    <3>2. k \notin live'[saved']
      BY <1>2, <2>9 DEF Restart
    <3>3. ~Owed(saved, k)'
      BY <3>1, <3>2 DEF Owed, Started
    <3> QED BY <3>3
  <2> QED BY <2>3, <2>5, <2>6, <2>7, <2>8, <2>9, MemorySteps DEF Open
<1> QED BY <1>4, <1>5

LEMMA KeepsOwedStream ==
    ASSUME IInv, Next
    PROVE  OwedStream'
<1>1. /\ OwedStream /\ ThreadKnown /\ PipesOK /\ stream.for \in Messages \cup {0}
      /\ saved' \in Threads \cup {0} /\ handlers' \subseteq Threads
  <2>1. TypeOK'
    BY ServerTyped, OthersTyped, LlmTyped DEF Next
  <2> QED BY <2>1 DEF IInv, TypeOK
<1> SUFFICES ASSUME saved' \in handlers'
             PROVE  /\ stream'.for # 0 => \A k \in Messages : Owed(saved, k)' => k = stream'.for
                    /\ stream'.result # "none" => Quiet(saved)'
  BY DEF OwedStream
<1>2. saved' \in Threads
  BY <1>1
<1>3. CASE Begins
  <2>1. Quiet(saved') /\ stream' = [NoStream EXCEPT !.for = sent]
    BY <1>3, BeginsQuiet
  <2>2. stream'.for = sent /\ stream'.result = "none"
    BY <2>1 DEF NoStream
  <2>3. \A k \in Messages : Owed(saved, k)' => k = sent
    BY <1>2, <2>1, OwedSteps DEF Quiet
  <2> QED BY <2>2, <2>3
<1>4. CASE ~Begins
  <2>1. \A k \in Messages : Owed(saved, k)' => Owed(saved', k)
    BY <1>2, <1>4, OwedSteps
  <2>2. CASE Router
    <3>1. saved' = saved /\ handlers' = handlers /\ stream'.for = stream.for
      BY <2>2, RouterFrame, RouterStream
    <3>2. /\ stream.for # 0 => \A k \in Messages : Owed(saved, k) => k = stream.for
          /\ stream.result # "none" => Quiet(saved)
      BY <1>1, <3>1 DEF OwedStream
    <3>3. stream'.for # 0 => \A k \in Messages : Owed(saved, k)' => k = stream'.for
      BY <2>1, <3>1, <3>2
    <3>4. CASE stream'.result = stream.result
      BY <2>1, <3>1, <3>2, <3>3, <3>4 DEF Quiet
    <3>5. CASE LET m == Head(toClient) IN
               /\ m \in Down /\ toClient # <<>> /\ toClient' = Tail(toClient)
               /\ m.t \in Final /\ m.h = saved /\ saved \in handlers /\ saved # 0
               /\ m.k = stream.for /\ stream.for # 0
      <4> DEFINE m == Head(toClient)
      <4>0. PICK h \in Threads, k \in Messages : h = saved /\ k = stream.for
        BY <1>1, <1>2, <3>1, <3>5
      <4>1. m \in Down /\ m.t \in Final /\ m.t \in Notes /\ m.h = h /\ m.k = k /\ stream.for # 0
        BY <3>5, <4>0 DEF Final, Notes
      <4>2. \A x \in Down' : x.t \in Notes => x.h # h \/ x.k # k
        BY <1>1, <3>5, <4>0, ReadEffect DEF IInv, Ended
      <4>3. k \notin live[h]
        BY <4>1 DEF IInv, Ended
      <4>4. NoteOf(h, k) /\ ~StartSent(h, k)
        BY <4>1 DEF NoteOf, IInv, StartedKnown, Started
      <4>5. ~StartSent(h, k)'
        BY <1>4, <4>4, OwedSteps
      <4>6. live' = live
        BY <2>2, RouterFrame
      <4>7. ~Owed(h, k)'
        BY <4>2, <4>3, <4>5, <4>6 DEF Owed, Started, NoteOf
      <4>8. Quiet(saved)'
        <5> SUFFICES ASSUME NEW j \in Messages, Owed(saved, j)' PROVE FALSE
          BY DEF Quiet
        <5>1. j = k
          BY <3>1, <3>3, <4>0, <4>1
        <5>2. saved' = h
          BY <3>1, <4>0
        <5> QED BY <4>7, <5>1, <5>2
      <4> QED BY <3>3, <4>8
    <3> QED BY <2>2, <3>4, <3>5, RouterStream
  <2>3. CASE stream' = stream /\ ~Router
    <3>1. CASE FreshStarted
      <4>1. Quiet(saved')
        BY <3>1, FreshQuiet
      <4>2. Quiet(saved)'
        BY <1>2, <1>4, <4>1, StaysQuiet
      <4> QED BY <4>2 DEF Quiet
    <3>2. CASE ~FreshStarted
      <4>1. saved' = saved
        BY <2>3, <3>2, ToolFrame, ServerFrame
           DEF Next, Llm, Ask, Resumed, ResumeFails, Injected, TurnAccepted, RequestFails, TurnEnds,
               TurnTimesOut, Abandoned, StopRequested, Drained, Stop, UserTurn, Die, Restart, ToolTask, clientVars, IInv
      <4>2. saved \in handlers
        <5>1. CASE Resumed
          <6>1. Diverged(saved)
            BY <1>4, <5>1 DEF Begins, Resumed, Llm, StartTurn, Request
          <6>2. handlers' = handlers \ {saved}
            BY <5>1, <6>1 DEF Resumed
          <6> QED BY <4>1, <6>2
        <5>2. CASE ~Resumed
          <6>1. handlers' = handlers \/ handlers' = {}
            BY <2>3, <3>2, <5>2, ToolFrame, ServerFrame
               DEF Next, Llm, Ask, ResumeFails, Injected, TurnAccepted, RequestFails, TurnEnds,
                   TurnTimesOut, Abandoned, StopRequested, Drained, Stop, UserTurn, Die, Restart, ToolTask, clientVars, IInv
          <6> QED BY <4>1, <6>1
        <5> QED BY <5>1, <5>2
      <4> QED BY <1>1, <2>1, <2>3, <4>1, <4>2 DEF OwedStream, Quiet
    <3> QED BY <3>1, <3>2
  <2>4. CASE stream' = NoStream
    BY <2>4 DEF NoStream
  <2>5. ASSUME pc' = "starting", Llm, stream' = [NoStream EXCEPT !.for = sent] PROVE FALSE
    BY <1>4, <2>5 DEF Begins, Llm, Ask, Resumed, ResumeFails, FreshStarted, Injected, TurnAccepted, RequestFails,
       TurnEnds, TurnTimesOut, Abandoned, StopRequested, Drained, Leave, Request, StartTurn
  <2> QED BY <2>2, <2>3, <2>4, <2>5, StreamSteps
<1> QED BY <1>3, <1>4

-----------------------------------------------------------------------------
(* Tool calls *)

\* A call stays where it is, or is dropped, ...
Kept(k) ==
    /\ replies'[k] = replies[k]
    /\ ReplySent(k)' => ReplySent(k)
    /\ k \in tools' => k \in tools
    /\ CallSent(k)' => CallSent(k)

\* ... or goes on: to the client, to a task or straight back, back, to the server.
CalledNow(k) == \E h \in Threads :
    k \in live[h] /\ k \in asked' /\ Model /\ UNCHANGED <<live, toServer, items>>
Moved(k) ==
    \/ /\ ~Called(k) /\ CallSent(k)' /\ ~ReplySent(k)' /\ k \notin tools' /\ replies'[k] = replies[k]
       /\ CalledNow(k)
    \/ CallSent(k) /\ ~CallSent(k)' /\ replies'[k] = replies[k] /\ ~(k \in tools' /\ ReplySent(k)')
    \/ k \in tools /\ k \notin tools' /\ replies'[k] = replies[k] /\ ~CallSent(k)'
    \/ /\ ReplySent(k) /\ ~ReplySent(k)' /\ k \notin tools' /\ ~CallSent(k)'
       /\ replies'[k] = replies[k] + 1

LEMMA CallSteps ==
    ASSUME IInv, Next
    PROVE  /\ OneReply(toServer') /\ OneCall(toClient')
           /\ \A k \in Messages : Kept(k) \/ Moved(k)
<1>1. /\ PipesOK /\ OneReply(toServer) /\ OneCall(toClient) /\ replies \in [Messages -> Nat]
      /\ \A m \in Up : m \in UpMsg /\ m.k \in Messages
      /\ \A n \in Down : n \in DownMsg /\ n.k \in Messages
      /\ \A k \in Messages :
           /\ replies[k] \in Nat /\ replies[k] <= 1
           /\ replies[k] > 0 => ~ReplySent(k) /\ k \notin tools /\ ~CallSent(k)
           /\ ReplySent(k) => k \notin tools /\ ~CallSent(k)
           /\ k \in tools => ~CallSent(k)
  <2>1. \A m \in Up : m.k \in Messages
    BY MsgsTyped DEF UpMsg
  <2>2. \A n \in Down : n.k \in Messages
    BY MsgsTyped, DownKinds
  <2> QED BY <2>1, <2>2, MsgsTyped DEF IInv, TypeOK, CallOnce
<1>2. ASSUME NEW m \in UpMsg, Write(m), m.t = "reply", \A x \in Up : x.t = "reply" => x.k # m.k
      PROVE  /\ OneReply(toServer') /\ m.k \in Messages
             /\ \A k \in Messages : ReplySent(k)' => ReplySent(k) \/ k = m.k
  BY <1>1, <1>2, WriteEffect DEF ReplySent, UpMsg
<1>3. CASE UserTurn
  BY <1>1, <1>3 DEF UserTurn, Kept, ReplySent, CallSent, Up, Down, routerVars, serverVars
<1>4. CASE Llm \/ Stop
  <2>1. UNCHANGED <<toClient, tools, replies>>
    BY <1>4, LlmFrame
  <2>2. OneReply(toServer') /\ \A k \in Messages : ReplySent(k)' => ReplySent(k)
    <3>1. CASE toServer' = toServer
      BY <1>1, <3>1 DEF ReplySent, Up
    <3>2. ASSUME NEW m \in UpMsg, Write(m), m.t # "reply"
          PROVE  OneReply(toServer') /\ \A k \in Messages : ReplySent(k)' => ReplySent(k)
      BY <1>1, <3>2, WriteEffect DEF ReplySent
    <3> QED BY <1>4, <3>1, <3>2, LlmMoves DEF Requesting
  <2> QED BY <1>1, <2>1, <2>2 DEF Kept, CallSent, Down
<1>5. CASE RouteTool
  <2> DEFINE m == Head(toClient)
  <2>1. /\ m \in Down /\ m.t = "tool" /\ m.k \in Messages /\ toClient' = Tail(toClient) /\ toClient # <<>>
        /\ \/ tools' = tools \cup {m.k} /\ toServer' = toServer
           \/ tools' = tools /\ Write(ToolReply(m.k))
        /\ replies' = replies
    BY <1>1, <1>5, ReadEffect DEF RouteTool, Routes, Decline, serverVars
  <2>0. PICK c \in Messages : c = m.k
    BY <2>1
  <2>2. /\ OneCall(toClient') /\ ~CallSent(c)'
        /\ \A k \in Messages : CallSent(k)' => CallSent(k)
    BY <1>1, <2>0, <2>1, ReadEffect DEF CallSent
  <2>3. CallSent(c) /\ c \notin tools /\ ~ReplySent(c) /\ \A x \in Up : x.t = "reply" => x.k # c
    BY <1>1, <2>0, <2>1 DEF CallSent, ReplySent
  <2>4. CASE tools' = tools \cup {c} /\ toServer' = toServer
    <3>1. OneReply(toServer') /\ \A k \in Messages : ReplySent(k)' => ReplySent(k)
      BY <1>1, <2>4 DEF ReplySent, Up
    <3>2. Moved(c)
      BY <2>0, <2>1, <2>2, <2>3, <3>1 DEF Moved
    <3>3. \A k \in Messages : k # c => Kept(k)
      BY <2>0, <2>1, <2>2, <2>4, <3>1 DEF Kept
    <3> QED BY <2>2, <3>1, <3>2, <3>3
  <2>5. CASE tools' = tools /\ Write(ToolReply(c))
    <3>1. ToolReply(c) \in UpMsg /\ ToolReply(c).t = "reply" /\ ToolReply(c).k = c
      BY <2>0, <2>1 DEF ToolReply, UpMsg
    <3>2. OneReply(toServer') /\ \A k \in Messages : ReplySent(k)' => ReplySent(k) \/ k = c
      BY <1>2, <2>3, <2>5, <3>1
    <3>3. Moved(c)
      BY <2>0, <2>1, <2>2, <2>3, <2>5 DEF Moved
    <3>4. \A k \in Messages : k # c => Kept(k)
      BY <2>0, <2>1, <2>2, <2>5, <3>2 DEF Kept
    <3> QED BY <2>2, <3>2, <3>3, <3>4
  <2> QED BY <2>0, <2>1, <2>4, <2>5
<1>6. CASE Router /\ ~RouteTool
  <2>1. UNCHANGED <<toServer, tools, replies>>
    BY <1>6 DEF Router, RouteReply, RouteNotification, RouteNative, MessageShown, routerVars, serverVars
  <2>2. OneCall(toClient') /\ \A k \in Messages : CallSent(k)' => CallSent(k)
    <3>1. CASE toClient' = toClient
      BY <1>1, <3>1 DEF CallSent, Down
    <3>2. CASE toClient # <<>> /\ toClient' = Tail(toClient)
      BY <1>1, <3>2, ReadEffect DEF CallSent
    <3> QED BY <1>6, <3>1, <3>2, RouterFrame
  <2> QED BY <1>1, <2>1, <2>2 DEF Kept, ReplySent, Up
<1>7. CASE ToolTask
  <2>1. PICK c \in Messages : ToolCut(c) \/ ToolEnds(c)
    BY <1>7 DEF ToolTask
  <2>2. /\ UNCHANGED <<toClient, replies>> /\ Write(ToolReply(c)) /\ c \in tools /\ tools' = tools \ {c}
        /\ ToolReply(c) \in UpMsg /\ ToolReply(c).t = "reply" /\ ToolReply(c).k = c
    BY <2>1, ToolFrame DEF IInv
  <2>3. ~CallSent(c) /\ ~ReplySent(c) /\ \A x \in Up : x.t = "reply" => x.k # c
    BY <1>1, <2>2 DEF ReplySent
  <2>4. OneReply(toServer') /\ \A k \in Messages : ReplySent(k)' => ReplySent(k) \/ k = c
    BY <1>2, <2>2, <2>3
  <2>5. Down' = Down /\ OneCall(toClient') /\ \A k \in Messages : CallSent(k)' <=> CallSent(k)
    BY <1>1, <2>2 DEF CallSent, Down
  <2>6. Moved(c)
    BY <2>2, <2>3, <2>5 DEF Moved
  <2>7. \A k \in Messages : k # c => Kept(k)
    BY <2>2, <2>4, <2>5 DEF Kept
  <2> QED BY <2>4, <2>5, <2>6, <2>7
<1>8. ASSUME toClient' = toClient \/ \E n \in DownMsg : toClient' = Append(toClient, n) /\ n.t # "tool"
      PROVE  OneCall(toClient') /\ \A k \in Messages : CallSent(k)' => CallSent(k)
  <2>1. CASE toClient' = toClient
    BY <1>1, <2>1 DEF CallSent, Down
  <2>2. ASSUME NEW n \in DownMsg, toClient' = Append(toClient, n), n.t # "tool"
        PROVE  OneCall(toClient') /\ \A k \in Messages : CallSent(k)' => CallSent(k)
    BY <1>1, <2>2, SentEffect DEF CallSent
  <2> QED BY <1>8, <2>1, <2>2
<1>9. CASE ServeReply
  <2>1. PICK c \in Messages :
        /\ c = Head(toServer).k /\ Head(toServer) \in Up /\ Head(toServer).t = "reply"
        /\ replies' = [replies EXCEPT ![c] = @ + 1]
    BY <1>9, ReplyEffect
  <2>2. toClient' = toClient \/ \E n \in DownMsg : toClient' = Append(toClient, n) /\ n.t # "tool"
    BY <1>9, ReplyEffect DEF Note
  <2>3. OneCall(toClient') /\ \A k \in Messages : CallSent(k)' => CallSent(k)
    BY <1>8, <2>2
  <2>4. toServer # <<>> /\ Taken /\ tools' = tools
    BY <1>9 DEF ServeReply, Serves, routerVars
  <2>5. ReplySent(c)
    BY <2>1 DEF ReplySent
  <2>6. /\ OneReply(toServer') /\ ~ReplySent(c)'
        /\ \A k \in Messages : ReplySent(k)' => ReplySent(k)
    BY <1>1, <2>1, <2>4, TakenEffect DEF ReplySent
  <2>7. Moved(c)
    BY <1>1, <2>1, <2>3, <2>4, <2>5, <2>6 DEF Moved
  <2>8. \A k \in Messages : k # c => Kept(k)
    BY <1>1, <2>1, <2>3, <2>4, <2>6 DEF Kept
  <2> QED BY <2>3, <2>6, <2>7, <2>8
<1>10. CASE Serve /\ ~ServeReply
  <2>1. toServer # <<>> /\ Taken /\ tools' = tools /\ replies' = replies
    BY <1>10, ServerFrame, AnswerSends, InterruptEffect
  <2>2. toClient' = toClient \/ \E n \in DownMsg : toClient' = Append(toClient, n) /\ n.t # "tool"
    <3>1. CASE ServeInterrupt
      BY <3>1, InterruptEffect DEF Note
    <3>2. CASE ~ServeInterrupt
      BY <1>10, <3>2, AnswerSends
    <3> QED BY <3>1, <3>2
  <2>3. OneReply(toServer') /\ \A k \in Messages : ReplySent(k)' => ReplySent(k)
    BY <1>1, <2>1, TakenEffect DEF ReplySent
  <2> QED BY <1>8, <2>1, <2>2, <2>3 DEF Kept
<1>11. CASE Model
  <2>1. UNCHANGED <<toServer, tools, replies>> /\ Up' = Up
    BY <1>11, ServerFrame, ModelSends DEF Up
  <2>2. OneReply(toServer') /\ \A k \in Messages : ReplySent(k)' <=> ReplySent(k)
    BY <1>1, <2>1 DEF ReplySent
  <2>3. PICK h \in Threads, c \in Messages, t \in Notes :
          /\ c \in live[h] /\ c \notin asked
          /\ Note(t, "", h, c) \in DownMsg /\ toClient' = Append(toClient, Note(t, "", h, c))
          /\ t = "tool" => asked' = asked \cup {c} /\ UNCHANGED <<items, live>> /\ <<"call", c>> \notin items[h]
    BY <1>11, ModelSends DEF Final
  <2> DEFINE n == Note(t, "", h, c)
  <2>4. n \in DownMsg /\ toClient' = Append(toClient, n) /\ n.t = t /\ n.k = c
    BY <2>3 DEF Note
  <2> HIDE DEF n
  <2>5. CASE t # "tool"
    BY <1>8, <2>1, <2>2, <2>4, <2>5 DEF Kept
  <2>6. CASE t = "tool"
    <3>1. ~Called(c)
      BY <2>3, <2>6 DEF IInv, CallKnown
    <3>2. \A x \in Down : x.t = "tool" => x.k # c
      BY <3>1 DEF Called, CallSent
    <3>3. OneCall(toClient') /\ Down' = Down \cup {n}
      BY <1>1, <2>4, <3>2, SentEffect
    <3>4. CallSent(c)' /\ \A k \in Messages : k # c /\ CallSent(k)' => CallSent(k)
      BY <2>4, <2>6, <3>3 DEF CallSent
    <3>5. CalledNow(c)
      BY <1>11, <2>1, <2>3, <2>6 DEF CalledNow
    <3>6. Moved(c)
      BY <2>1, <2>2, <3>1, <3>4, <3>5 DEF Moved, Called
    <3>7. \A k \in Messages : k # c => Kept(k)
      BY <2>1, <2>2, <3>4 DEF Kept
    <3> QED BY <2>2, <3>3, <3>6, <3>7
  <2> QED BY <2>5, <2>6
<1>12. CASE Die
  BY <1>1, <1>12 DEF Die, Kept, ReplySent, CallSent, OneReply, Up, Down, SetOf, clientVars, routerVars
<1>13. CASE Restart
  BY <1>1, <1>13 DEF Restart, Kept, ReplySent, CallSent, OneReply, OneCall, Up, Down, SetOf
<1> QED BY <1>3, <1>4, <1>5, <1>6, <1>7, <1>9, <1>10, <1>11, <1>12, <1>13 DEF Next, Router

LEMMA KeepsCallOnce ==
    ASSUME IInv, Next
    PROVE  CallOnce'
<1> SUFFICES ASSUME NEW k \in Messages
             PROVE  /\ replies'[k] <= 1
                    /\ replies'[k] > 0 => ~ReplySent(k)' /\ k \notin tools' /\ ~CallSent(k)'
                    /\ ReplySent(k)' => k \notin tools' /\ ~CallSent(k)'
                    /\ k \in tools' => ~CallSent(k)'
  BY CallSteps DEF CallOnce
<1>1. /\ replies[k] \in Nat /\ replies[k] <= 1
      /\ replies[k] > 0 => ~ReplySent(k) /\ k \notin tools /\ ~CallSent(k)
      /\ ReplySent(k) => k \notin tools /\ ~CallSent(k)
      /\ k \in tools => ~CallSent(k)
  BY DEF IInv, TypeOK, CallOnce
<1>2. CASE Kept(k)
  BY <1>1, <1>2 DEF Kept
<1>3. CASE Moved(k)
  BY <1>1, <1>3 DEF Moved, Called
<1> QED BY <1>2, <1>3, CallSteps

LEMMA KeepsCallKnown ==
    ASSUME IInv, Next
    PROVE  CallKnown'
<1>1. /\ CallKnown /\ OwedOnce /\ live \in [Threads -> SUBSET Messages] /\ items \in [Threads -> SUBSET Item]
      /\ asked \subseteq Messages /\ asked' \subseteq Messages /\ replies \in [Messages -> Nat]
  <2>1. TypeOK'
    BY ServerTyped, OthersTyped, LlmTyped DEF Next
  <2> QED BY <2>1 DEF IInv, TypeOK
<1>2. ASSUME NEW k \in Messages, Called(k)' PROVE Called(k) \/ CalledNow(k)
  BY <1>1, <1>2, CallSteps DEF Kept, Moved, Called
<1>3. ASSUME NEW h \in Threads, NEW k \in live[h]
      PROVE  /\ k \in Messages /\ k <= sent /\ (k = sent /\ pc # "idle" => pc \in Turning)
             /\ \A g \in Threads : ~StartSent(g, k)
  <2>1. k \in Messages /\ Started(h, k) /\ Owed(h, k)
    BY <1>1 DEF Started, Owed
  <2>2. \A g \in Threads : StartSent(g, k) => g = h
    BY <1>1, <2>1 DEF OwedOnce, Owed
  <2> QED BY <2>1, <2>2 DEF IInv, OwedKnown, StartedKnown
<1>4. \A h, g \in Threads : \A k \in live[h] \cap live[g] : h = g
  BY <1>1 DEF OwedOnce, Owed, Started
<1>5. \A k \in Messages : Called(k)' => k <= sent' /\ (k = sent' /\ pc' # "idle" => pc' \in Turning)
  BY <1>1, <1>2, <1>3, TurnSteps DEF CallKnown, CalledNow
<1>6. \A k \in asked' : \E h \in Threads : k \in live'[h]
  <2>1. CASE UserTurn \/ Llm \/ Stop \/ Router \/ ToolTask
    <3>1. asked' = asked /\ live' = live
      BY <2>1, LlmFrame, RouterFrame, ToolFrame DEF UserTurn, ToolTask, serverVars, IInv
    <3> QED BY <1>1, <3>1 DEF CallKnown
  <2>2. CASE Model
    <3>1. PICK h \in Threads, k \in Messages :
            /\ k \in live[h] /\ k \notin asked
            /\ \/ asked' = asked \cup {k} /\ live' = live
               \/ asked' = asked /\ live' = live
               \/ asked' = asked /\ live' = [live EXCEPT ![h] = @ \ {k}]
      BY <2>2, ModelSends
    <3> QED BY <1>1, <3>1 DEF CallKnown
  <2>3. CASE ServeTurn
    <3>1. /\ Head(toServer).h \in Threads /\ asked' = asked
          /\ live' = [live EXCEPT ![Head(toServer).h] = @ \cup {Head(toServer).k}]
      BY <2>3, TurnBegun DEF ServeTurn
    <3> QED BY <1>1, <3>1 DEF CallKnown
  <2>4. CASE ServeInterrupt
    <3> DEFINE h == Head(toServer).h
    <3>1. h \in Threads /\ \/ UNCHANGED <<live, asked>>
                           \/ live' = [live EXCEPT ![h] = {}] /\ asked' = asked \ live[h]
      BY <2>4, InterruptEffect
    <3> HIDE DEF h
    <3> QED BY <1>1, <3>1 DEF CallKnown
  <2>5. CASE ServeReply
    BY <1>1, <2>5, ReplyEffect DEF CallKnown
  <2>6. CASE Serve /\ ~ServeTurn /\ ~ServeInterrupt /\ ~ServeReply
    <3>1. asked' = asked /\ live' = live
      BY <2>6 DEF Serve, ServeRefused, ServeResume, ServeNew, ServeInject, serverVars
    <3> QED BY <1>1, <3>1 DEF CallKnown
  <2>7. CASE Die \/ Restart
    BY <2>7 DEF Die, Restart
  <2> QED BY <2>1, <2>2, <2>3, <2>4, <2>5, <2>6, <2>7 DEF Next
<1>7. ASSUME NEW h \in Threads, NEW k \in Messages, Called(k)'
      PROVE  ~StartSent(h, k)'
  <2>1. CASE CalledNow(k)
    <3>1. ~StartSent(h, k) /\ toServer' = toServer
      BY <1>3, <2>1 DEF CalledNow
    <3> QED BY <3>1 DEF StartSent, Up
  <2>2. CASE Called(k)
    <3>1. ~StartSent(h, k) /\ (k = sent /\ pc # "idle" => pc \in Turning)
      BY <1>1, <2>2 DEF CallKnown
    <3> QED BY <3>1, OwedSteps, BeginsQuiet
  <2> QED BY <1>2, <1>7, <2>1, <2>2
<1>8. ASSUME NEW h \in Threads, NEW k \in Messages, Called(k)', k \in live'[h]
      PROVE  k \in asked' \/ <<"call", k>> \in items'[h]
  <2>1. CASE CalledNow(k)
    BY <2>1 DEF CalledNow
  <2>2. CASE Called(k)
    <3>1. k \in live[h]
      BY <1>1, <1>8, <2>2, OwedSteps DEF CallKnown
    <3>2. CASE <<"call", k>> \in items[h]
      BY <3>2, ItemsSteps
    <3>3. CASE k \in asked
      <4>1. CASE UserTurn \/ Llm \/ Stop \/ Router \/ ToolTask
        BY <3>3, <4>1, LlmFrame, RouterFrame, ToolFrame DEF UserTurn, ToolTask, serverVars, IInv
      <4>2. CASE Model
        BY <3>3, <4>2, ModelSends
      <4>3. CASE ServeInterrupt
        <5> DEFINE g == Head(toServer).h
        <5>1. g \in Threads /\ \/ UNCHANGED <<live, asked>>
                               \/ live' = [live EXCEPT ![g] = {}] /\ asked' = asked \ live[g]
          BY <4>3, InterruptEffect
        <5> HIDE DEF g
        <5>2. ASSUME k \in live[g], live' = [live EXCEPT ![g] = {}] PROVE FALSE
          BY <1>1, <1>4, <1>8, <3>1, <5>1, <5>2
        <5> QED BY <3>3, <5>1, <5>2
      <4>4. CASE ServeReply
        <5>1. PICK c \in Messages :
                /\ asked' = asked \ {c}
                /\ \/ c \notin asked
                   \/ \E g \in Threads : c \in live[g] /\ items' = [items EXCEPT ![g] = @ \cup {<<"call", c>>}]
          BY <4>4, ReplyEffect
        <5>2. CASE c # k
          BY <3>3, <5>1, <5>2
        <5>3. CASE c = k
          <6>1. PICK g \in Threads : k \in live[g] /\ items' = [items EXCEPT ![g] = @ \cup {<<"call", k>>}]
            BY <3>3, <5>1, <5>3
          <6>2. g = h
            BY <1>4, <3>1, <6>1
          <6> QED BY <1>1, <6>1, <6>2
        <5> QED BY <5>2, <5>3
      <4>5. CASE Serve /\ ~ServeInterrupt /\ ~ServeReply
        BY <3>3, <4>5, AnswerSends
      <4>6. CASE Die \/ Restart
        BY <1>8, <4>6 DEF Die, Restart
      <4> QED BY <4>1, <4>2, <4>3, <4>4, <4>5, <4>6 DEF Next
    <3> QED BY <1>1, <2>2, <3>1, <3>2, <3>3 DEF CallKnown
  <2> QED BY <1>2, <1>8, <2>1, <2>2
<1> QED BY <1>5, <1>6, <1>7, <1>8 DEF CallKnown

-----------------------------------------------------------------------------
(* The invariant holds *)

LEMMA InitInv == Init => IInv
<1> SUFFICES ASSUME Init PROVE IInv
  OBVIOUS
<1> USE DEF Init
<1>1. TypeOK
  BY BoundsAssumption DEF TypeOK, NoStream, NotHeld, Stages
<1>2. PipesOK /\ Up = {} /\ Down = {}
  BY DEF PipesOK, Up, Down, SetOf
<1>3. IdsKnown /\ AtQuestion /\ MemoryOwn /\ StreamOwn /\ StreamNow
  BY DEF IdsKnown, AtQuestion, MemoryOwn, AnswersOwn, StreamOwn, StreamNow, NoStream, NotHeld, InTurn
<1>4. ThreadKnown /\ ThreadsNamed
  BY <1>2 DEF ThreadKnown, ThreadsNamed, Turning, InTurn
<1>5. PastOnly /\ OneWrite(toServer) /\ Answered
  BY <1>2 DEF PastOnly, OneWrite, Answered, Requesting
<1>6. \A h \in Threads, k \in Messages : ~Started(h, k) /\ ~StartSent(h, k)
  BY <1>2 DEF Started, StartSent, NoteOf
<1>7. OwedKnown /\ OwedOnce /\ StartedKnown /\ OneLive /\ Ended
  BY <1>2, <1>6 DEF OwedKnown, OwedOnce, StartedKnown, OneLive, Ended, FinalLast, Owed
<1>8. strayed = {} /\ StartMeant /\ InjectMeant /\ OwedOpen /\ OwedStream
  BY <1>2 DEF StartMeant, InjectMeant, OwedOpen, OwedStream
<1>9. \A k \in Messages : ~Called(k)
  BY <1>2 DEF Called, ReplySent, CallSent
<1>10. CallOnce /\ CallKnown
  <2>1. OneReply(toServer) /\ OneCall(toClient)
    BY DEF OneReply, OneCall
  <2>2. \A k \in Messages : replies[k] = 0
    OBVIOUS
  <2>3. CallOnce
    BY <1>9, <2>1, <2>2 DEF CallOnce, Called
  <2>4. asked = {}
    OBVIOUS
  <2> QED BY <1>9, <2>3, <2>4 DEF CallKnown
<1> QED BY <1>1, <1>2, <1>3, <1>4, <1>5, <1>7, <1>8, <1>10 DEF IInv

LEMMA NextInv == IInv /\ Next => IInv'
<1> SUFFICES ASSUME IInv, Next PROVE IInv'
  OBVIOUS
<1>1. TypeOK' /\ PipesOK'
  BY ServerTyped, OthersTyped, LlmTyped DEF Next
<1> QED BY <1>1, KeepsMemory, KeepsStream, KeepsThreadKnown, KeepsThreadsNamed, KeepsPastOnly, KeepsOneWrite,
           KeepsAnswered, KeepsOwed, KeepsEnded, KeepsStartMeant, KeepsInjectMeant, KeepsOwedOpen,
           KeepsOwedStream, KeepsCallOnce, KeepsCallKnown DEF IInv

LEMMA StutterInv == IInv /\ UNCHANGED vars => IInv'
<1> SUFFICES ASSUME IInv, UNCHANGED vars PROVE IInv'
  OBVIOUS
<1>1. /\ UNCHANGED <<memory, onDisk, pc, got, newThread, thread, saved, handlers, stream, held, tools, cut>>
      /\ UNCHANGED <<toServer, toClient, created, items, live, asked, replies, strayed, sent, faults, alive>>
  BY DEF vars, clientVars, routerVars, serverVars, faultVars
<1>2. Up' = Up /\ Down' = Down
  BY <1>1 DEF Up, Down
<1>3. TypeOK' /\ PipesOK' /\ IdsKnown' /\ AtQuestion' /\ MemoryOwn' /\ StreamOwn' /\ StreamNow'
  BY <1>1 DEF IInv, TypeOK, PipesOK, IdsKnown, AtQuestion, MemoryOwn, StreamOwn, StreamNow
<1>4. ThreadKnown' /\ ThreadsNamed' /\ PastOnly' /\ OneWrite(toServer)' /\ Answered'
  BY <1>1, <1>2 DEF IInv, ThreadKnown, ThreadsNamed, PastOnly, Answered, Replied
<1>5. \A h \in Threads, k \in Messages :
        /\ Started(h, k)' <=> Started(h, k)
        /\ StartSent(h, k)' <=> StartSent(h, k)
        /\ Owed(h, k)' <=> Owed(h, k)
  BY <1>1, <1>2 DEF Started, StartSent, NoteOf, Owed
<1>6. \A h \in Threads : Quiet(h)' <=> Quiet(h)
  BY <1>5 DEF Quiet
<1>7. OwedKnown' /\ OwedOnce' /\ StartedKnown' /\ OneLive' /\ Ended' /\ strayed' = {} /\ StartMeant'
  BY <1>1, <1>2, <1>5 DEF IInv, OwedKnown, OwedOnce, StartedKnown, OneLive, Ended, StartMeant
<1>8. InjectMeant'
  <2>1. \A m \in Up : m.t = "inject" => m.h \in Threads
    BY MsgsTyped DEF UpMsg, IInv, ThreadsNamed
  <2>2. pc = "inject" => saved \in Threads
    BY DEF IInv, ThreadKnown, TypeOK
  <2>3. Stable(memory)' = Stable(memory)
    BY <1>1 DEF Stable, StableLength
  <2> QED BY <1>1, <1>2, <1>6, <2>1, <2>2, <2>3 DEF IInv, InjectMeant
<1>9. OwedOpen' /\ OwedStream'
  <2>1. saved # 0 => saved \in Threads
    BY DEF IInv, TypeOK
  <2>2. saved \in handlers => saved \in Threads
    BY DEF IInv, TypeOK
  <2>3. OwedOpen'
    BY <1>1, <1>5, <2>1 DEF IInv, OwedOpen, Open
  <2>4. OwedStream'
    BY <1>1, <1>5, <1>6, <2>2 DEF IInv, OwedStream
  <2> QED BY <2>3, <2>4
<1>10. \A k \in Messages :
        /\ ReplySent(k)' <=> ReplySent(k)
        /\ CallSent(k)' <=> CallSent(k)
        /\ Called(k)' <=> Called(k)
  BY <1>1, <1>2 DEF ReplySent, CallSent, Called
<1>11. CallOnce' /\ CallKnown'
  BY <1>1, <1>5, <1>10 DEF IInv, CallOnce, CallKnown
<1> QED BY <1>3, <1>4, <1>7, <1>8, <1>9, <1>11 DEF IInv

LEMMA InvariantHolds == Spec => []IInv
<1>1. IInv /\ [Next]_vars => IInv'
  BY NextInv, StutterInv
<1> QED BY InitInv, <1>1, PTL DEF Spec

-----------------------------------------------------------------------------
(* Theorems *)

\* The state keeps its shape: what waits in the pipes, what a thread holds and
\* what the router collects are turns and messages of the kinds the code reads.
THEOREM TypesOK == Spec => []TypeOK
<1>1. IInv => TypeOK
  BY DEF IInv
<1> QED BY <1>1, InvariantHolds, PTL

\* llm(), whenever it starts a turn, has a thread that holds exactly what the
\* memory holds before the messages the turn is given, and on which nothing runs:
\* after any order of stops, timeouts, refusals, late answers, deaths and restarts.
THEOREM TurnsInStep == Spec => []ThreadInStep
<1>1. ASSUME IInv PROVE ThreadInStep
  <2>1. ASSUME NEW h \in Threads PROVE Cardinality(live[h]) <= 1
    <3>1. \A k, j \in live[h] : k = j
      BY <1>1 DEF IInv, OneLive
    <3>2. CASE live[h] = {}
      BY <3>2, FS_EmptySet
    <3>3. CASE live[h] # {}
      <4>1. PICK k \in live[h] : TRUE
        BY <3>3
      <4>2. live[h] = {k}
        BY <3>1, <4>1
      <4> QED BY <4>2, FS_Singleton
    <3> QED BY <3>2, <3>3
  <2>2. strayed = {}
    BY <1>1 DEF IInv
  <2> QED BY <2>1, <2>2 DEF ThreadInStep, HistoryInStep, TurnsDoNotOverlap
<1> QED BY <1>1, InvariantHolds, PTL

\* What llm() puts into the memory as the answer to a message is of the turn of
\* that message: a notification of a turn stopped or given up earlier is never
\* collected for a later one.
THEOREM AnswersBelong == Spec => []AnswersOwnQuestion
<1>1. ASSUME IInv PROVE AnswersOwnQuestion
  <2>1. memory \in Seq(Item) /\ AnswersOwn(memory)
    BY <1>1 DEF IInv, TypeOK, MemoryOwn
  <2> SUFFICES ASSUME NEW i \in DOMAIN memory, memory[i][1] \in {"call", "answer", "notice"},
                      NEW j \in 1..(i - 1), memory[j][1] = "user"
               PROVE  memory[j][2] <= memory[i][2]
    BY DEF AnswersOwnQuestion
  <2>2. i \in 1..Len(memory) /\ Len(memory) \in Nat /\ DOMAIN memory = 1..Len(memory)
    BY <2>1
  <2>3. j \in DOMAIN memory /\ j < i
    BY <2>2
  <2> QED BY <2>1, <2>3 DEF AnswersOwn
<1> QED BY <1>1, InvariantHolds, PTL

\* The tool call of a turn is answered once at most, by the task that ran it, by
\* its cancellation or by the router that found no handler: never by two of them.
THEOREM RepliedOnce == Spec => []ToolRepliedOnce
<1>1. IInv => ToolRepliedOnce
  BY DEF IInv, CallOnce, ToolRepliedOnce
<1> QED BY <1>1, InvariantHolds, PTL

=============================================================================
