---------------------------- MODULE IpcStreamProofs ----------------------------
(***************************************************************************)
(* Theorems about the two streams of a connection of module IpcServer:     *)
(* what is read is cut where the requests of the peer end, and every       *)
(* request gets one reply, in order.                                       *)
(***************************************************************************)
EXTENDS IpcServerProofs

-----------------------------------------------------------------------------
(* What is under way to the server, from the first byte it has not read to *)
(* the last one the peer has written: the rest of the request it is at,    *)
(* and then whole requests up to the last one.                             *)

Size(asked, n) == HeaderSize + asked[n].len

\* Each cell is one of a request that has been made.
Valid(asked, in) ==
  \A i \in 1..Len(in) :
    in[i].n \in 1..Len(asked) /\ in[i].off \in 1..Size(asked, in[i].n)

\* From each cell on, the rest of its request follows, and then the next one.
Consecutive(asked, in) ==
  \A i \in 1..Len(in) : \A d \in 0..Len(in) - i :
    /\ in[i].off + d <= Size(asked, in[i].n) =>
         in[i + d] = [n |-> in[i].n, off |-> in[i].off + d]
    /\ in[i].off + d = Size(asked, in[i].n) + 1 =>
         in[i + d] = [n |-> in[i].n + 1, off |-> 1]

\* The cell the server takes the first one for.
NextCell(k) ==
  IF k.pending > 0 THEN [n |-> k.hdr, off |-> HeaderSize + 1]
                   ELSE [n |-> k.hdr + 1, off |-> 1]

SyncOf(k, asked, hup, in) ==
  /\ k.hdr \in 0..Len(asked)
  /\ k.pending > 0 => /\ k.hdr \in DOMAIN asked
                      /\ k.pending = asked[k.hdr].len
                      /\ k.ptype = asked[k.hdr].type
  /\ Valid(asked, in)
  /\ Consecutive(asked, in)
  /\ in # <<>> => in[1] = NextCell(k)
  /\ ~hup => IF in = <<>> THEN k.pending = 0 /\ k.hdr = Len(asked)
             ELSE in[Len(in)] = [n |-> Len(asked), off |-> Size(asked, Len(asked))]

SyncRec(k, s) == SyncOf(k, s.asked, s.hup, s.inq \o s.wire)

SyncInv ==
  \A c \in Clients : client[c].life \in {"queued", "open"} => SyncRec(client[c], sock[c])

-----------------------------------------------------------------------------
(* Lemmas about the queue of cells. *)

\* t is what is left of s when its first m cells are taken.
Rest(s, t, m) ==
  /\ m \in 0..Len(s)
  /\ t \in Seq(InCell)
  /\ Len(t) = Len(s) - m
  /\ \A i \in 1..Len(t) : t[i] = s[i + m]

LEMMA RestSubSeq ==
  ASSUME NEW s \in Seq(InCell), NEW m \in 0..Len(s), NEW t, t = SubSeq(s, m + 1, Len(s))
  PROVE  Rest(s, t, m)
<1>1. Len(s) \in Nat /\ \A i \in 1..Len(s) : s[i] \in InCell
  BY LenProperties
<1>2. m + 1 \in Int /\ Len(s) \in Int /\ \A i \in m + 1..Len(s) : s[i] \in InCell
  BY <1>1
<1>3. /\ t \in Seq(InCell)
      /\ Len(t) = IF m + 1 <= Len(s) THEN Len(s) - (m + 1) + 1 ELSE 0
      /\ \A i \in 1..Len(s) - (m + 1) + 1 : t[i] = s[m + 1 + i - 1]
  BY <1>2, SubSeqProperties
<1>4. Len(t) = Len(s) - m
  BY <1>1, <1>3
<1>5. ASSUME NEW i \in 1..Len(t) PROVE t[i] = s[i + m]
  <2>1. i \in 1..Len(s) - (m + 1) + 1 /\ m + 1 + i - 1 = i + m
    BY <1>1, <1>4
  <2>2. t[i] = s[m + 1 + i - 1]
    BY <1>3, <2>1
  <2>3. QED BY <2>1, <2>2
<1>6. QED BY <1>3, <1>4, <1>5 DEF Rest

LEMMA RestTwice ==
  ASSUME NEW s \in Seq(InCell), NEW t, NEW m, Rest(s, t, m), NEW u, NEW p, Rest(t, u, p)
  PROVE  Rest(s, u, m + p)
<1>1. /\ Len(s) \in Nat /\ Len(t) \in Nat /\ Len(u) \in Nat /\ u \in Seq(InCell)
      /\ m \in 0..Len(s) /\ p \in 0..Len(t)
      /\ Len(t) = Len(s) - m /\ Len(u) = Len(t) - p
  BY LenProperties DEF Rest
<1>2. m + p \in 0..Len(s) /\ Len(u) = Len(s) - (m + p)
  BY <1>1
<1>3. ASSUME NEW i \in 1..Len(u) PROVE u[i] = s[i + (m + p)]
  <2>1. i + p \in 1..Len(t) /\ (i + p) + m = i + (m + p)
    BY <1>1
  <2>2. u[i] = t[i + p] /\ t[i + p] = s[(i + p) + m]
    BY <2>1 DEF Rest
  <2>3. QED BY <2>1, <2>2
<1>4. QED BY <1>1, <1>2, <1>3 DEF Rest

LEMMA RestConcat ==
  ASSUME NEW s \in Seq(InCell), NEW w \in Seq(InCell), NEW t, NEW m, Rest(s, t, m),
         NEW sw, sw = s \o w, NEW tw, tw = t \o w
  PROVE  Rest(sw, tw, m)
<1>1. /\ Len(s) \in Nat /\ Len(t) \in Nat /\ Len(w) \in Nat /\ t \in Seq(InCell)
      /\ m \in 0..Len(s) /\ Len(t) = Len(s) - m
  BY LenProperties DEF Rest
<1>2. /\ sw \in Seq(InCell) /\ Len(sw) = Len(s) + Len(w)
      /\ \A i \in 1..Len(s) + Len(w) : sw[i] = IF i <= Len(s) THEN s[i] ELSE w[i - Len(s)]
  BY ConcatProperties
<1>3. /\ tw \in Seq(InCell) /\ Len(tw) = Len(t) + Len(w)
      /\ \A i \in 1..Len(t) + Len(w) : tw[i] = IF i <= Len(t) THEN t[i] ELSE w[i - Len(t)]
  BY <1>1, ConcatProperties
<1>4. m \in 0..Len(sw) /\ Len(tw) = Len(sw) - m
  BY <1>1, <1>2, <1>3
<1>5. ASSUME NEW i \in 1..Len(tw) PROVE tw[i] = sw[i + m]
  <2>1. i \in 1..Len(t) + Len(w) /\ i + m \in 1..Len(s) + Len(w)
    BY <1>1, <1>3
  <2>2. CASE i <= Len(t)
    <3>1. i \in 1..Len(t) /\ i + m <= Len(s)
      BY <1>1, <2>1, <2>2
    <3>2. t[i] = s[i + m]
      BY <3>1 DEF Rest
    <3>3. QED BY <1>2, <1>3, <2>1, <2>2, <3>1, <3>2
  <2>3. CASE ~(i <= Len(t))
    <3>1. ~(i + m <= Len(s)) /\ i - Len(t) = i + m - Len(s)
      BY <1>1, <2>1, <2>3
    <3>2. tw[i] = w[i - Len(t)]
      BY <1>3, <2>1, <2>3
    <3>3. PICK j : j = i + m
      OBVIOUS
    <3>4. j \in 1..Len(s) + Len(w) /\ ~(j <= Len(s)) /\ i - Len(t) = j - Len(s)
      BY <1>1, <2>1, <2>3, <3>3
    <3>5. sw[j] = w[j - Len(s)]
      BY <1>2, <3>4
    <3>6. QED BY <3>2, <3>3, <3>4, <3>5
  <2>4. QED BY <2>2, <2>3
<1>6. QED BY <1>3, <1>4, <1>5 DEF Rest

LEMMA FirstOfConcat ==
  ASSUME NEW s \in Seq(InCell), NEW w \in Seq(InCell), Len(s) > 0, NEW sw, sw = s \o w
  PROVE  sw[1] = s[1] /\ sw # <<>>
<1>1. Len(s) \in Nat /\ Len(w) \in Nat /\ Len(sw) = Len(s) + Len(w)
      /\ \A i \in 1..Len(s) + Len(w) : sw[i] = IF i <= Len(s) THEN s[i] ELSE w[i - Len(s)]
  BY ConcatProperties, LenProperties
<1>2. 1 \in 1..Len(s) + Len(w) /\ 1 <= Len(s)
  BY <1>1
<1>3. QED BY <1>1, <1>2

LEMMA FirstOfJoined ==
  ASSUME NEW s \in Seq(InCell), NEW w \in Seq(InCell), Len(s) > 0
  PROVE  (s \o w)[1] = s[1] /\ s \o w # <<>>
<1>1. PICK sw : sw = s \o w
  OBVIOUS
<1>2. sw[1] = s[1] /\ sw # <<>>
  BY <1>1, FirstOfConcat
<1>3. QED BY <1>1, <1>2

\* What is left of a queue of requests is one, too.
LEMMA RestRuns ==
  ASSUME NEW asked \in Seq(Requests), NEW in \in Seq(InCell), NEW t, NEW m, Rest(in, t, m),
         Valid(asked, in), Consecutive(asked, in)
  PROVE  Valid(asked, t) /\ Consecutive(asked, t)
<1>1. /\ Len(in) \in Nat /\ Len(t) \in Nat /\ m \in 0..Len(in) /\ Len(t) = Len(in) - m
  BY LenProperties DEF Rest
<1>2. \A i \in 1..Len(t) : i + m \in 1..Len(in) /\ t[i] = in[i + m]
  BY <1>1 DEF Rest
<1>3. Valid(asked, t)
  BY <1>2 DEF Valid
<1>4. Consecutive(asked, t)
  <2> SUFFICES ASSUME NEW i \in 1..Len(t), NEW d \in 0..Len(t) - i
               PROVE  /\ t[i].off + d <= Size(asked, t[i].n) =>
                           t[i + d] = [n |-> t[i].n, off |-> t[i].off + d]
                      /\ t[i].off + d = Size(asked, t[i].n) + 1 =>
                           t[i + d] = [n |-> t[i].n + 1, off |-> 1]
    BY DEF Consecutive
  <2>1. i + d \in 1..Len(t) /\ d \in 0..Len(in) - (i + m) /\ (i + d) + m = (i + m) + d
    BY <1>1
  <2>2. t[i + d] = in[(i + m) + d] /\ t[i] = in[i + m] /\ i + m \in 1..Len(in)
    BY <1>2, <2>1
  <2>3. QED BY <2>1, <2>2 DEF Consecutive
<1>5. QED BY <1>3, <1>4

\* Reading a whole request, what is left of one, or a header whose payload
\* is awaited.
ReadOff(asked, x, m, k) ==
  /\ k.hdr = x.n
  /\ \/ k.pending = 0 /\ x.off + m = Size(asked, x.n) + 1
     \/ /\ k.pending > 0 /\ k.pending = asked[x.n].len /\ k.ptype = asked[x.n].type
        /\ x.off + m = HeaderSize + 1

LEMMA SyncRead ==
  ASSUME NEW asked \in Seq(Requests), NEW in \in Seq(InCell), NEW hup \in BOOLEAN,
         NEW k \in ClientRec, SyncOf(k, asked, hup, in),
         NEW m \in Nat \ {0}, NEW t, Rest(in, t, m), NEW k2 \in ClientRec,
         ReadOff(asked, in[1], m, k2)
  PROVE  SyncOf(k2, asked, hup, t)
<1> DEFINE x == in[1]
           last == [n |-> Len(asked), off |-> Size(asked, Len(asked))]
<1>1. /\ Len(in) \in Nat /\ Len(t) \in Nat /\ m \in 1..Len(in) /\ Len(t) = Len(in) - m
      /\ Len(asked) \in Nat /\ DOMAIN asked = 1..Len(asked) /\ HeaderSize \in Nat
      /\ t \in Seq(InCell)
  BY LenProperties, SizesNat DEF Rest
<1>2. /\ 1 \in 1..Len(in) /\ Len(in) \in 1..Len(in)
      /\ x.n \in 1..Len(asked) /\ x.off \in 1..Size(asked, x.n)
      /\ asked[x.n].len \in Nat /\ Size(asked, x.n) = HeaderSize + asked[x.n].len
  <2>1. 1 \in 1..Len(in) /\ Len(in) \in 1..Len(in)
    BY <1>1
  <2>2. x.n \in 1..Len(asked) /\ x.off \in 1..Size(asked, x.n)
    BY <2>1 DEF SyncOf, Valid
  <2>3. asked[x.n] \in Requests
    BY <2>2, ElementOfSeq
  <2>4. asked[x.n].len \in Nat
    BY <2>3, RequestsAssumption DEF Request
  <2>5. QED BY <2>1, <2>2, <2>4 DEF Size
<1>3. Valid(asked, t) /\ Consecutive(asked, t)
  BY RestRuns DEF SyncOf
<1>4. k2.hdr = x.n /\ (\/ k2.pending = 0 /\ x.off + m = Size(asked, x.n) + 1
                       \/ /\ k2.pending > 0 /\ k2.pending = asked[x.n].len
                          /\ k2.ptype = asked[x.n].type /\ x.off + m = HeaderSize + 1)
  BY DEF ReadOff
<1> HIDE DEF x, last
<1>5. ASSUME t # <<>> PROVE t[1] = NextCell(k2)
  <2>1. Len(t) >= 1 /\ m \in 0..Len(in) - 1 /\ 1 + m = m + 1
    BY <1>1, <1>5, EmptySeq
  <2>2. t[1] = in[1 + m]
    BY <2>1 DEF Rest
  <2>3. /\ x.off + m <= Size(asked, x.n) => in[1 + m] = [n |-> x.n, off |-> x.off + m]
        /\ x.off + m = Size(asked, x.n) + 1 => in[1 + m] = [n |-> x.n + 1, off |-> 1]
    BY <1>2, <2>1 DEF SyncOf, Consecutive, x
  <2>4. CASE k2.pending = 0 /\ x.off + m = Size(asked, x.n) + 1
    BY <1>4, <2>2, <2>3, <2>4 DEF NextCell
  <2>5. CASE k2.pending > 0 /\ k2.pending = asked[x.n].len /\ x.off + m = HeaderSize + 1
    <3>1. x.off + m <= Size(asked, x.n)
      BY <1>1, <1>2, <2>5
    <3>2. QED BY <1>4, <2>2, <2>3, <2>5, <3>1 DEF NextCell
  <2>6. QED BY <1>4, <2>4, <2>5
<1>6. ASSUME ~hup PROVE IF t = <<>> THEN k2.pending = 0 /\ k2.hdr = Len(asked)
                        ELSE t[Len(t)] = last
  <2>1. in[Len(in)] = last
    BY <1>2, <1>6, EmptySeq DEF SyncOf, last
  <2>2. CASE t # <<>>
    <3>1. Len(t) \in 1..Len(t) /\ Len(t) + m = Len(in)
      BY <1>1, <2>2, EmptySeq
    <3>2. t[Len(t)] = in[Len(t) + m]
      BY <3>1 DEF Rest
    <3>3. QED BY <2>1, <2>2, <3>1, <3>2
  <2>3. CASE t = <<>>
    <3>1. m = Len(in) /\ m - 1 \in 0..Len(in) - 1 /\ 1 + (m - 1) = Len(in)
      BY <1>1, <2>3
    <3>2. x.off + (m - 1) <= Size(asked, x.n)
      <4>1. x.off \in Int /\ Size(asked, x.n) \in Int /\ HeaderSize <= Size(asked, x.n)
        BY <1>1, <1>2
      <4>2. x.off + m <= Size(asked, x.n) + 1
        BY <1>1, <1>4, <4>1
      <4>3. QED BY <1>1, <4>1, <4>2
    <3>3. in[Len(in)] = [n |-> x.n, off |-> x.off + (m - 1)]
      BY <1>2, <3>1, <3>2 DEF SyncOf, Consecutive, x
    <3>4. x.n = Len(asked) /\ x.off + (m - 1) = Size(asked, x.n)
      BY <2>1, <3>3 DEF last
    <3>5. x.off + m = Size(asked, x.n) + 1
      BY <1>1, <1>2, <3>4
    <3>6. ~(k2.pending > 0 /\ k2.pending = asked[x.n].len /\ x.off + m = HeaderSize + 1)
      BY SMTT(30), <1>1, <1>2, <3>5
    <3>7. QED BY <1>4, <2>3, <3>4, <3>6
  <2>4. QED BY <2>2, <2>3
<1>7. /\ k2.hdr \in 0..Len(asked)
      /\ k2.pending > 0 => /\ k2.hdr \in DOMAIN asked
                           /\ k2.pending = asked[k2.hdr].len
                           /\ k2.ptype = asked[k2.hdr].type
  BY <1>1, <1>2, <1>4
<1>8. QED BY <1>3, <1>5, <1>6, <1>7 DEF SyncOf, last

\* The peer starts its next request.
LEMMA SyncSent ==
  ASSUME NEW asked \in Seq(Requests), NEW in \in Seq(InCell), NEW r \in Requests,
         NEW k \in ClientRec, SyncOf(k, asked, FALSE, in),
         NEW a2, a2 = Append(asked, r), NEW b, b = Bytes(Len(asked) + 1, r),
         NEW in2, in2 = in \o b
  PROVE  SyncOf(k, a2, FALSE, in2)
<1>1. /\ Len(asked) \in Nat /\ DOMAIN asked = 1..Len(asked) /\ Len(in) \in Nat
      /\ a2 \in Seq(Requests) /\ Len(a2) = Len(asked) + 1 /\ DOMAIN a2 = 1..Len(a2)
      /\ \A i \in 1..Len(asked) : a2[i] = asked[i]
      /\ a2[Len(asked) + 1] = r
  BY AppendProperties, LenProperties
<1>2. r.len \in Nat /\ HeaderSize \in Nat \ {0} /\ Size(a2, Len(asked) + 1) = HeaderSize + r.len
  BY <1>1, SizesAssumption, RequestsAssumption DEF Request, Size
<1>3. PICK n, z : n = Len(asked) + 1 /\ z = HeaderSize + r.len
  OBVIOUS
<1>4. n \in Nat /\ z \in Nat /\ z > 0 /\ Size(a2, n) = z /\ Len(a2) = n
  BY <1>1, <1>2, <1>3
<1>5. /\ b \in Seq(InCell) /\ Len(b) = z
      /\ \A i \in 1..z : b[i] = [n |-> n, off |-> i]
  <2>1. b = [i \in 1..z |-> [n |-> n, off |-> i]]
    BY <1>3 DEF Bytes
  <2>2. \A i \in 1..z : [n |-> n, off |-> i] \in InCell
    BY <1>4 DEF InCell
  <2>3. QED BY <1>4, <2>1, <2>2
<1>6. /\ in2 \in Seq(InCell) /\ Len(in2) = Len(in) + z
      /\ \A i \in 1..Len(in) + z : in2[i] = IF i <= Len(in) THEN in[i] ELSE b[i - Len(in)]
  BY <1>4, <1>5, ConcatProperties
<1>7. /\ \A i \in 1..Len(in) : in2[i] = in[i]
      /\ \A j \in 1..z : in2[Len(in) + j] = [n |-> n, off |-> j]
  <2>1. ASSUME NEW i \in 1..Len(in) PROVE in2[i] = in[i]
    BY <1>1, <1>4, <1>6
  <2>2. ASSUME NEW j \in 1..z PROVE in2[Len(in) + j] = [n |-> n, off |-> j]
    <3>1. PICK i : i = Len(in) + j
      OBVIOUS
    <3>2. i \in 1..Len(in) + z /\ ~(i <= Len(in)) /\ i - Len(in) = j
      BY <1>1, <1>4, <3>1
    <3>3. in2[i] = b[i - Len(in)]
      BY <1>6, <3>2
    <3>4. QED BY <1>5, <3>1, <3>2, <3>3
  <2>3. QED BY <2>1, <2>2
<1>8. \A i \in 1..Len(in) : /\ in[i].n \in 1..Len(asked) /\ in[i].n \in 1..n
                            /\ in[i].off \in 1..Size(asked, in[i].n)
                            /\ Size(a2, in[i].n) = Size(asked, in[i].n)
                            /\ Size(asked, in[i].n) \in Nat
  <2> SUFFICES ASSUME NEW i \in 1..Len(in)
               PROVE  /\ in[i].n \in 1..Len(asked) /\ in[i].n \in 1..n
                      /\ in[i].off \in 1..Size(asked, in[i].n)
                      /\ Size(a2, in[i].n) = Size(asked, in[i].n)
                      /\ Size(asked, in[i].n) \in Nat
    OBVIOUS
  <2>1. in[i].n \in 1..Len(asked) /\ in[i].off \in 1..Size(asked, in[i].n)
    BY DEF SyncOf, Valid
  <2>2. in[i].n \in 1..n
    BY <1>1, <1>3, <2>1
  <2>3. a2[in[i].n] = asked[in[i].n] /\ asked[in[i].n] \in Requests
    BY <1>1, <2>1, ElementOfSeq
  <2>4. asked[in[i].n].len \in Nat
    BY <2>3, RequestsAssumption DEF Request
  <2>5. QED BY <1>2, <2>1, <2>2, <2>3, <2>4 DEF Size
<1>9. \A i \in 1..Len(in2) : i \in 1..Len(in) \/ \E j \in 1..z : i = Len(in) + j
  <2> SUFFICES ASSUME NEW i \in 1..Len(in2), i \notin 1..Len(in)
               PROVE  \E j \in 1..z : i = Len(in) + j
    OBVIOUS
  <2>1. i - Len(in) \in 1..z /\ i = Len(in) + (i - Len(in))
    BY <1>1, <1>4, <1>6
  <2>2. QED BY <2>1
<1>10. Valid(a2, in2)
  <2> SUFFICES ASSUME NEW i \in 1..Len(in2)
               PROVE  in2[i].n \in 1..Len(a2) /\ in2[i].off \in 1..Size(a2, in2[i].n)
    BY DEF Valid
  <2>1. CASE i \in 1..Len(in)
    BY <1>4, <1>7, <1>8, <2>1
  <2>2. ASSUME NEW j \in 1..z, i = Len(in) + j
        PROVE  in2[i].n \in 1..Len(a2) /\ in2[i].off \in 1..Size(a2, in2[i].n)
    <3>1. in2[i] = [n |-> n, off |-> j]
      BY <1>7, <2>2
    <3>2. in2[i].n = n /\ in2[i].off = j
      BY <3>1
    <3>3. QED BY <1>4, <3>2
  <2>3. QED BY <1>9, <2>1, <2>2
<1>11. ASSUME in # <<>>
       PROVE  in[Len(in)] = [n |-> Len(asked), off |-> Size(asked, Len(asked))] /\ Len(in) >= 1
  BY <1>1, <1>11, EmptySeq DEF SyncOf
<1>12. Consecutive(a2, in2)
  <2> SUFFICES ASSUME NEW i \in 1..Len(in2), NEW d \in 0..Len(in2) - i
               PROVE  /\ in2[i].off + d <= Size(a2, in2[i].n) =>
                           in2[i + d] = [n |-> in2[i].n, off |-> in2[i].off + d]
                      /\ in2[i].off + d = Size(a2, in2[i].n) + 1 =>
                           in2[i + d] = [n |-> in2[i].n + 1, off |-> 1]
    BY DEF Consecutive
  <2>0. d \in Nat /\ i \in Nat /\ i + d \in 1..Len(in2)
    BY <1>1, <1>4, <1>6
  <2>1. CASE i + d <= Len(in)
    <3>1. i \in 1..Len(in) /\ i + d \in 1..Len(in) /\ d \in 0..Len(in) - i
      BY <1>1, <2>0, <2>1
    <3>2. in2[i] = in[i] /\ in2[i + d] = in[i + d] /\ Size(a2, in[i].n) = Size(asked, in[i].n)
      BY <1>7, <1>8, <3>1
    <3>3. QED BY <3>1, <3>2 DEF SyncOf, Consecutive
  <2>2. CASE ~(i <= Len(in))
    <3>1. PICK j \in 1..z : i = Len(in) + j
      BY <1>1, <1>9, <2>2
    <3>2. in2[i].n = n /\ in2[i].off = j
      <4>1. in2[i] = [n |-> n, off |-> j]
        BY <1>7, <3>1
      <4>2. QED BY <4>1
    <3>3. j + d \in 1..z /\ i + d = Len(in) + (j + d)
      BY <1>1, <1>4, <1>6, <2>0, <3>1
    <3>4. in2[i + d] = [n |-> n, off |-> j + d]
      BY <1>7, <3>3
    <3>5. j + d # Size(a2, n) + 1
      BY <1>4, <3>3
    <3>6. QED BY <3>2, <3>4, <3>5
  <2>3. CASE i <= Len(in) /\ ~(i + d <= Len(in))
    <3>1. i \in 1..Len(in) /\ in # <<>> /\ Len(in) - i \in 0..Len(in) - i
          /\ i + (Len(in) - i) = Len(in)
      BY <1>1, <2>0, <2>3, EmptySeq
    <3>2. PICK o, y, x : o = in[i].off /\ y = Size(asked, in[i].n) /\ x = in[i].n
      OBVIOUS
    <3>3. /\ o \in 1..y /\ y \in Nat /\ Size(a2, x) = y /\ in2[i] = in[i] /\ x \in 1..Len(asked)
      BY <1>7, <1>8, <3>1, <3>2
    <3>4. PICK e : e = Len(in) - i
      OBVIOUS
    <3>5. e \in 0..Len(in) - i /\ i + e = Len(in) /\ e \in Nat /\ d > e
      BY <1>1, <2>0, <2>3, <3>1, <3>4
    <3>6. CASE o + e <= y
      <4>1. in[Len(in)] = [n |-> x, off |-> o + e]
        BY <3>1, <3>2, <3>5, <3>6 DEF SyncOf, Consecutive
      <4>2. x = Len(asked) /\ o + e = y
        BY <1>11, <3>1, <3>2, <4>1
      <4>3. ~(o + d <= y)
        BY <2>0, <3>3, <3>5, <4>2
      <4>4. ASSUME o + d = y + 1 PROVE in2[i + d] = [n |-> x + 1, off |-> 1]
        <5>1. i + d = Len(in) + 1 /\ 1 \in 1..z
          <6>1. o \in Int /\ e \in Int /\ d \in Int /\ i \in Int /\ y \in Int /\ Len(in) \in Int
            BY <1>1, <2>0, <3>3, <3>5
          <6>2. d = e + 1
            BY <4>2, <4>4, <6>1
          <6>3. i + d = Len(in) + 1
            BY <3>5, <6>1, <6>2
          <6>4. QED BY <1>4, <6>3
        <5>2. QED BY <1>3, <1>7, <4>2, <5>1
      <4>5. QED BY <3>2, <3>3, <4>3, <4>4
    <3>7. CASE ~(o + e <= y)
      <4>1. ~(o + d <= y) /\ o + d # y + 1
        BY <2>0, <3>3, <3>5, <3>7
      <4>2. QED BY <3>2, <3>3, <4>1
    <3>8. QED BY <3>6, <3>7
  <2>4. QED BY <1>1, <2>0, <2>1, <2>2, <2>3
<1>13. in2 # <<>> /\ in2[Len(in2)] = [n |-> Len(a2), off |-> Size(a2, Len(a2))]
  <2>1. z \in 1..z /\ Len(in2) = Len(in) + z /\ Len(in2) > 0
    BY <1>1, <1>4, <1>6
  <2>2. QED BY <1>4, <1>6, <1>7, <2>1, EmptySeq
<1>14. in2[1] = NextCell(k)
  <2>1. CASE in = <<>>
    <3>1. Len(in) = 0 /\ 1 \in 1..z /\ 0 + 1 = 1
      BY <1>4, <2>1
    <3>2. in2[1] = [n |-> n, off |-> 1]
      BY <1>7, <3>1
    <3>3. k.pending = 0 /\ k.hdr = Len(asked)
      BY <2>1 DEF SyncOf
    <3>4. NextCell(k) = [n |-> k.hdr + 1, off |-> 1]
      <4>1. ~(k.pending > 0)
        BY <3>3
      <4>2. QED BY <4>1 DEF NextCell
    <3>5. k.hdr + 1 = n
      BY <1>3, <3>3
    <3>6. QED BY <3>2, <3>4, <3>5
  <2>2. CASE in # <<>>
    <3>1. 1 \in 1..Len(in)
      BY <1>1, <1>11, <2>2
    <3>2. in2[1] = in[1]
      BY <1>7, <3>1
    <3>3. in[1] = NextCell(k)
      BY <2>2 DEF SyncOf
    <3>4. QED BY <3>2, <3>3
  <2>3. QED BY <2>1, <2>2
<1>15. /\ k.hdr \in 0..Len(a2)
       /\ k.pending > 0 => /\ k.hdr \in DOMAIN a2
                           /\ k.pending = a2[k.hdr].len
                           /\ k.ptype = a2[k.hdr].type
  BY <1>1 DEF SyncOf
<1>16. QED BY <1>10, <1>12, <1>13, <1>14, <1>15 DEF SyncOf

\* The peer hangs up: what it has not got rid of is lost.
LEMMA SyncCut ==
  ASSUME NEW asked \in Seq(Requests), NEW s \in Seq(InCell), NEW w \in Seq(InCell),
         NEW in, in = s \o w, NEW k \in ClientRec, NEW hup, SyncOf(k, asked, hup, in)
  PROVE  SyncOf(k, asked, TRUE, s)
<1>1. /\ Len(s) \in Nat /\ Len(w) \in Nat /\ in \in Seq(InCell) /\ Len(in) = Len(s) + Len(w)
      /\ \A i \in 1..Len(s) + Len(w) : in[i] = IF i <= Len(s) THEN s[i] ELSE w[i - Len(s)]
  BY ConcatProperties, LenProperties
<1>2. \A i \in 1..Len(s) : i \in 1..Len(in) /\ in[i] = s[i]
  BY <1>1
<1>3. Valid(asked, s)
  BY <1>2 DEF SyncOf, Valid
<1>4. Consecutive(asked, s)
  <2> SUFFICES ASSUME NEW i \in 1..Len(s), NEW d \in 0..Len(s) - i
               PROVE  /\ s[i].off + d <= Size(asked, s[i].n) =>
                           s[i + d] = [n |-> s[i].n, off |-> s[i].off + d]
                      /\ s[i].off + d = Size(asked, s[i].n) + 1 =>
                           s[i + d] = [n |-> s[i].n + 1, off |-> 1]
    BY DEF Consecutive
  <2>1. i + d \in 1..Len(s) /\ d \in 0..Len(in) - i
    BY <1>1
  <2>2. QED BY <1>2, <2>1 DEF SyncOf, Consecutive
<1>5. s # <<>> => s[1] = NextCell(k)
  <2>1. s # <<>> => 1 \in 1..Len(s) /\ in # <<>>
    BY <1>1, EmptySeq
  <2>2. QED BY <1>2, <2>1 DEF SyncOf
<1>6. QED BY <1>3, <1>4, <1>5 DEF SyncOf

-----------------------------------------------------------------------------
(* The steps. *)

\* What is under way to the server changes only by reading and by what the
\* peer does.
LEMMA SockStays ==
  ASSUME IInv, Next, NEW d \in Clients, ~ReadHeader(d), ~ReadPayload(d),
         ~PeerSend(d), ~Arrive(d), ~PeerHangup(d)
  PROVE  /\ sock'[d].asked = sock[d].asked /\ sock'[d].hup = sock[d].hup
         /\ sock'[d].inq = sock[d].inq /\ sock'[d].wire = sock[d].wire
<1> DEFINE Same == /\ sock'[d].asked = sock[d].asked /\ sock'[d].hup = sock[d].hup
                   /\ sock'[d].inq = sock[d].inq /\ sock'[d].wire = sock[d].wire
<1>0. sock \in [Clients -> SockRec] /\ sock[d] \in SockRec
  BY DEF IInv, TypeOK
<1>1. CASE Plugin
  BY <1>1 DEF Plugin, Serve, ServeFails, HandleDisplayDestroy, HandleConnection, CommandDone,
              Publish
<1>2. ASSUME NEW c \in Clients, ReadHeader(c) \/ ReadPayload(c) PROVE Same
  <2>0. c # d
    BY <1>2
  <2>1. CASE Disconnect(c)
    BY <2>1 DEF Disconnect
  <2>2. ASSUME NEW q, sock' = [sock EXCEPT ![c].inq = q] PROVE sock'[d] = sock[d]
    BY <1>0, <2>0, <2>2
  <2>3. CASE HeaderKept(c)
    BY <2>2, <2>3 DEF HeaderKept
  <2>4. CASE RequestHandled(c)
    <3>1. \E p : sock' = [sock EXCEPT ![c].inq = p]
      BY <2>4, RequestTaken
    <3>2. QED BY <2>2, <3>1
  <2>5. QED BY <1>2, <2>1, <2>3, <2>4, ReadCases
<1>3. ASSUME NEW c \in Clients, HandleHangup(c) \/ SocketError(c) PROVE Same
  BY <1>3 DEF HandleHangup, SocketError, Disconnect
<1>4. ASSUME NEW c \in Clients, ClientHandleWritable(c) PROVE Same
  BY <1>0, <1>4 DEF ClientHandleWritable, Written, SockRec
<1>5. ASSUME NEW c \in Clients, Peer(c) PROVE Same
  <2>1. CASE PeerConnect(c)
    BY <2>1 DEF PeerConnect
  <2>2. CASE PeerSend(c)
    <3>1. c # d
      BY <2>2
    <3>2. PICK r \in Requests :
            sock' = [sock EXCEPT ![c].asked = Append(@, r),
                                 ![c].wire = Bytes(Len(sock[c].asked) + 1, r)]
      BY <2>2 DEF PeerSend
    <3>3. QED BY <1>0, <3>1, <3>2
  <2>3. CASE Arrive(c)
    <3>1. c # d
      BY <2>3
    <3>2. PICK x, y : sock' = [sock EXCEPT ![c].inq = x, ![c].wire = y]
      BY <2>3 DEF Arrive
    <3>3. QED BY <1>0, <3>1, <3>2
  <2>4. CASE PeerHangup(c)
    BY <1>0, <2>4 DEF PeerHangup
  <2>5. QED BY <1>5, <2>1, <2>2, <2>3, <2>4 DEF Peer
<1>6. QED BY <1>1, <1>2, <1>3, <1>4, <1>5 DEF Next, Handler

\* A part of the queue is consumed, and the record says so.
LEMMA SyncTaken ==
  ASSUME IInv, NEW d \in Clients, SyncRec(client[d], sock[d]),
         NEW m \in Nat \ {0}, NEW q, Rest(sock[d].inq, q, m),
         sock'[d] = [sock[d] EXCEPT !.inq = q], NEW k2 \in ClientRec,
         ReadOff(sock[d].asked, sock[d].inq[1], m, k2)
  PROVE  SyncRec(k2, sock'[d])
<1>1. /\ sock[d] \in SockRec /\ client[d] \in ClientRec
      /\ sock[d].asked \in Seq(Requests) /\ sock[d].inq \in Seq(InCell)
      /\ sock[d].wire \in Seq(InCell) /\ sock[d].hup \in BOOLEAN
  BY DEF IInv, TypeOK, SockRec
<1>2. PICK s, w, in, t : s = sock[d].inq /\ w = sock[d].wire /\ in = s \o w /\ t = q \o w
  OBVIOUS
<1>3. Rest(in, t, m) /\ in \in Seq(InCell)
  BY <1>1, <1>2, RestConcat, ConcatProperties
<1>4. in[1] = s[1]
  <2>1. Len(s) > 0
    BY <1>1, <1>2, LenProperties DEF Rest
  <2>2. s \in Seq(InCell) /\ w \in Seq(InCell)
    BY <1>1, <1>2
  <2>3. (s \o w)[1] = s[1]
    BY <2>1, <2>2, FirstOfJoined
  <2>4. QED BY <1>2, <2>3
<1>5. SyncOf(client[d], sock[d].asked, sock[d].hup, in)
  BY <1>2 DEF SyncRec
<1>6. ReadOff(sock[d].asked, in[1], m, k2)
  BY <1>2, <1>4
<1>7. SyncOf(k2, sock[d].asked, sock[d].hup, t)
  BY <1>1, <1>3, <1>5, <1>6, SyncRead
<1>8. /\ sock'[d].asked = sock[d].asked /\ sock'[d].hup = sock[d].hup
      /\ sock'[d].inq = q /\ sock'[d].wire = sock[d].wire
  BY <1>1 DEF SockRec
<1>9. QED BY <1>2, <1>7, <1>8 DEF SyncRec

\* A request is read.
LEMMA SyncReadStep ==
  ASSUME IInv, NEW d \in Clients, SyncRec(client[d], sock[d]),
         ReadHeader(d) \/ ReadPayload(d), client'[d].life = "open",
         client'[d] \in ClientRec
  PROVE  SyncRec(client'[d], sock'[d])
<1> DEFINE q == sock[d].inq
           asked == sock[d].asked
<1>0. /\ sock \in [Clients -> SockRec] /\ client \in [Clients -> ClientRec]
      /\ sock[d] \in SockRec /\ client[d] \in ClientRec
      /\ asked \in Seq(Requests) /\ q \in Seq(InCell) /\ sock[d].wire \in Seq(InCell)
      /\ HeaderSize \in Nat \ {0} /\ Len(q) \in Nat /\ client[d].pending \in Nat
      /\ client[d].hdr \in Nat /\ client[d].ptype \in RequestTypes \cup {"none"}
  <2>1. sock \in [Clients -> SockRec] /\ client \in [Clients -> ClientRec]
    BY DEF IInv, TypeOK
  <2>2. sock[d] \in SockRec /\ client[d] \in ClientRec
    BY <2>1
  <2>3. QED BY <2>1, <2>2, SizesAssumption, LenProperties DEF SockRec, ClientRec
<1>1. client[d].life = "open"
  BY ReadCases
<1>2. ASSUME Len(q) > 0
      PROVE  /\ q[1] = NextCell(client[d])
             /\ q[1].n \in 1..Len(asked)
  <2>1. PICK s, in : s = q /\ in = s \o sock[d].wire
    OBVIOUS
  <2>2. in[1] = s[1] /\ in # <<>> /\ 1 \in 1..Len(in)
    <3>1. in[1] = s[1] /\ in # <<>> /\ in \in Seq(InCell)
      BY <1>0, <1>2, <2>1, FirstOfConcat, ConcatProperties
    <3>2. QED BY <3>1, EmptySeq, LenProperties
  <2>3. SyncOf(client[d], asked, sock[d].hup, in)
    BY <2>1 DEF SyncRec
  <2>4. in[1] = NextCell(client[d]) /\ in[1].n \in 1..Len(asked)
    BY <2>2, <2>3 DEF SyncOf, Valid
  <2>5. QED BY <2>1, <2>2, <2>4
<1>3. CASE ReadPayload(d)
  <2> DEFINE n == client[d].hdr
             len == client[d].pending
             rest == SubSeq(q, len + 1, Len(q))
  <2>1. /\ ClientHandleCommand(d, client[d].ptype, n, len, q)
        /\ len > 0 /\ Len(q) >= len
    BY <1>3 DEF ReadPayload
  <2>2. client'[d].pending = 0 /\ client'[d].hdr = n
    BY <1>0, <1>1, <2>1, HandledRec
  <2>3. sock'[d] = [sock[d] EXCEPT !.inq = rest]
    BY <1>0, <2>1 DEF ClientHandleCommand
  <2>4. Rest(q, rest, len)
    <3>1. len \in 0..Len(q)
      BY <1>0, <2>1
    <3> HIDE DEF q, len
    <3>2. QED BY <1>0, <3>1, RestSubSeq
  <2>5. q[1] = [n |-> n, off |-> HeaderSize + 1] /\ len = asked[n].len
    <3>1. Len(q) > 0
      BY <1>0, <2>1
    <3>2. len = asked[n].len
      BY <2>1 DEF SyncRec, SyncOf
    <3>3. QED BY <1>2, <2>1, <3>1, <3>2 DEF NextCell
  <2>6. ReadOff(asked, q[1], len, client'[d])
    <3>1. q[1].n = n /\ q[1].off = HeaderSize + 1
      BY <2>5
    <3>2. q[1].off + len = Size(asked, n) + 1
      <4>1. PICK a, o : a = len /\ o = q[1].off
        OBVIOUS
      <4>2. a \in Nat /\ o = HeaderSize + 1 /\ Size(asked, n) = HeaderSize + a
        BY <1>0, <2>5, <3>1, <4>1 DEF Size
      <4>3. o + a = HeaderSize + a + 1
        BY <1>0, <4>2
      <4>4. QED BY <4>1, <4>2, <4>3
    <3>3. QED BY <2>2, <3>1, <3>2 DEF ReadOff
  <2>7. len \in Nat \ {0}
    BY <1>0, <2>1
  <2> HIDE DEF rest, len, n
  <2>8. QED BY <2>3, <2>4, <2>6, <2>7, SyncTaken
<1>4. CASE ReadHeader(d)
  <2> DEFINE n == q[1].n
             r == asked[n]
             rest == SubSeq(q, HeaderSize + 1, Len(q))
  <2>1. client[d].pending = 0 /\ Len(q) >= HeaderSize /\ Len(q) > 0
    <3>1. client[d].pending = 0 /\ Len(q) >= HeaderSize
      BY <1>4 DEF ReadHeader
    <3> HIDE DEF q
    <3>2. QED BY <1>0, <3>1
  <2>2. n = client[d].hdr + 1 /\ q[1].off = 1 /\ n \in 1..Len(asked) /\ n \in Nat
        /\ r \in Requests /\ r.len \in Nat /\ r.type \in RequestTypes
    <3>1. q[1] = [n |-> client[d].hdr + 1, off |-> 1] /\ n \in 1..Len(asked)
      BY <1>2, <2>1 DEF NextCell
    <3>2. r \in Requests
      BY <1>0, <3>1, ElementOfSeq
    <3>3. r.len \in Nat /\ r.type \in RequestTypes
      BY <3>2, RequestsAssumption DEF Request
    <3>4. QED BY <1>0, <3>1, <3>2, <3>3
  <2>3. Rest(q, rest, HeaderSize) /\ Len(rest) \in Nat
    <3>1. Rest(q, rest, HeaderSize)
      <4>1. HeaderSize \in 0..Len(q)
        BY <1>0, <2>1
      <4> HIDE DEF q
      <4>2. QED BY <1>0, <4>1, RestSubSeq
    <3>2. QED BY <3>1, LenProperties DEF Rest
  <2> DEFINE Kept ==
        /\ client' = [client EXCEPT ![d].pending = r.len, ![d].ptype = r.type, ![d].hdr = n]
        /\ sock' = [sock EXCEPT ![d].inq = rest]
  <2>4. \/ Disconnect(d)
        \/ Len(rest) >= r.len /\ ClientHandleCommand(d, r.type, n, r.len, rest)
        \/ ~(Len(rest) >= r.len) /\ Kept
    BY <1>4 DEF ReadHeader
  <2>5. ~Disconnect(d)
    BY <1>0 DEF Disconnect, ClientsBecome, Disconnected, Fresh
  <2> HIDE DEF rest
  <2>6. CASE Len(rest) >= r.len /\ ClientHandleCommand(d, r.type, n, r.len, rest)
    <3> DEFINE rest2 == SubSeq(rest, r.len + 1, Len(rest))
               m == HeaderSize + r.len
    <3>1. client'[d].pending = 0 /\ client'[d].hdr = n
      BY <1>1, <2>2, <2>6, HandledRec
    <3>2. sock'[d] = [sock[d] EXCEPT !.inq = rest2]
      BY <1>0, <2>6 DEF ClientHandleCommand
    <3>3. Rest(rest, rest2, r.len)
      <4>1. rest \in Seq(InCell) /\ r.len \in 0..Len(rest)
        <5>1. Len(rest) >= r.len /\ rest \in Seq(InCell)
          BY <2>3, <2>6 DEF Rest
        <5>2. r.len \in Nat /\ Len(rest) \in Nat
          BY <2>2, <2>3
        <5> HIDE DEF r
        <5>3. QED BY <5>1, <5>2
      <4>2. QED BY <4>1, RestSubSeq
    <3> HIDE DEF rest2
    <3>4. Rest(q, rest2, m)
      BY <1>0, <2>3, <3>3, RestTwice
    <3>5. ReadOff(asked, q[1], m, client'[d])
      <4>1. q[1].off + m = Size(asked, n) + 1
        BY <1>0, <2>2 DEF Size
      <4>2. QED BY <3>1, <4>1 DEF ReadOff
    <3>6. m \in Nat \ {0}
      <4>1. \A len \in Nat : HeaderSize + len \in Nat \ {0}
        BY SizesNat
      <4>2. r.len \in Nat
        BY <2>2
      <4> HIDE DEF r
      <4>3. QED BY <4>1, <4>2
    <3> HIDE DEF m, r, n
    <3>7. QED BY <3>2, <3>4, <3>5, <3>6, SyncTaken
  <2>7. CASE ~(Len(rest) >= r.len) /\ Kept
    <3>1. r.len > 0
      <4>1. ~(Len(rest) >= r.len)
        BY <2>7
      <4>2. r.len \in Nat /\ Len(rest) \in Nat
        BY <2>2, <2>3
      <4> HIDE DEF r
      <4>3. QED BY <4>1, <4>2
    <3>2. /\ client'[d].pending = r.len /\ client'[d].ptype = r.type /\ client'[d].hdr = n
          /\ sock'[d] = [sock[d] EXCEPT !.inq = rest]
      BY <1>0, <2>7 DEF ClientRec
    <3>3. ReadOff(asked, q[1], HeaderSize, client'[d])
      <4>1. q[1].off + HeaderSize = HeaderSize + 1
        BY <1>0, <2>2
      <4>2. QED BY <3>1, <3>2, <4>1 DEF ReadOff
    <3> HIDE DEF r, n
    <3>4. QED BY <1>0, <2>3, <3>2, <3>3, SyncTaken
  <2>8. QED BY <2>4, <2>5, <2>6, <2>7
<1>5. QED BY <1>3, <1>4

\* Bytes arrive: what is under way stays as it is.
LEMMA SyncArrive ==
  ASSUME IInv, NEW d \in Clients, SyncRec(client[d], sock[d]), Arrive(d)
  PROVE  SyncRec(client'[d], sock'[d])
<1>0. /\ sock \in [Clients -> SockRec] /\ sock[d] \in SockRec
      /\ sock[d].inq \in Seq(InCell) /\ sock[d].wire \in Seq(InCell)
  BY DEF IInv, TypeOK, SockRec
<1>1. PICK s, w : s = sock[d].inq /\ w = sock[d].wire
  OBVIOUS
<1>2. PICK k \in 1..Len(w) :
        sock' = [sock EXCEPT ![d].inq = @ \o SubSeq(sock[d].wire, 1, k),
                             ![d].wire = SubSeq(@, k + 1, Len(@))]
  BY <1>1 DEF Arrive
<1>3. PICK s2, w2 : s2 = s \o SubSeq(w, 1, k) /\ w2 = SubSeq(w, k + 1, Len(w))
  OBVIOUS
<1>4. s2 \o w2 = s \o w
  <2>1. (s \o SubSeq(w, 1, k)) \o SubSeq(w, k + 1, Len(w)) = s \o w
    <3>1. s \in Seq(InCell) /\ w \in Seq(InCell) /\ k \in 1..Len(w)
      BY <1>0, <1>1
    <3>2. QED BY ONLY ZenonT(30), <3>1, FrontMoved
  <2>2. QED BY <1>3, <2>1
<1>5. /\ sock'[d].inq = s2 /\ sock'[d].wire = w2
      /\ sock'[d].asked = sock[d].asked /\ sock'[d].hup = sock[d].hup
  <2>1. sock'[d] = [sock[d] EXCEPT !.inq = s2, !.wire = w2]
    BY <1>0, <1>1, <1>2, <1>3
  <2>2. QED BY <1>0, <2>1 DEF SockRec
<1>6. client' = client
  BY DEF Arrive
<1>7. QED BY <1>1, <1>4, <1>5, <1>6 DEF SyncRec

LEMMA SyncInit == Init => SyncInv
BY DEF Init, SyncInv, Fresh

LEMMA SyncStep ==
  ASSUME IInv, LifeInv, SyncInv, [Next]_vars
  PROVE  SyncInv'
<1>0. /\ sock \in [Clients -> SockRec] /\ client \in [Clients -> ClientRec]
      /\ client' \in [Clients -> ClientRec]
      /\ \A d \in Clients : sock[d] \in SockRec /\ client[d] \in ClientRec
  <2>1. IInv'
    BY StepGood
  <2>2. QED BY <2>1 DEF IInv, TypeOK
<1>1. CASE UNCHANGED vars
  BY <1>1 DEF vars, SyncInv
<1>2. CASE Next
  <2> SUFFICES ASSUME NEW d \in Clients, client'[d].life \in {"queued", "open"}
               PROVE  SyncRec(client'[d], sock'[d])
    BY DEF SyncInv
  <2>1. CASE client[d].life = "new"
    <3>1. client'[d] # client[d]
      BY <2>1
    <3>2. client'[d] = Fresh("queued") /\ sock'[d] = sock[d]
      BY <1>2, <2>1, <3>1, PendingStep
    <3>3. EmptySock(sock[d]) /\ <<>> \o <<>> = <<>>
      BY <2>1 DEF LifeInv
    <3>4. sock'[d].asked = <<>> /\ sock'[d].hup = FALSE /\ sock'[d].inq \o sock'[d].wire = <<>>
      <4>1. sock[d].hup \in BOOLEAN
        BY <1>0 DEF SockRec
      <4>2. QED BY <3>2, <3>3, <4>1 DEF EmptySock
    <3>5. SyncOf(Fresh("queued"), <<>>, FALSE, <<>>)
      <4>1. Len(<<>>) = 0
        OBVIOUS
      <4>2. Valid(<<>>, <<>>) /\ Consecutive(<<>>, <<>>)
        BY <4>1 DEF Valid, Consecutive
      <4>3. Fresh("queued").hdr = 0 /\ Fresh("queued").pending = 0
        BY DEF Fresh
      <4>4. QED BY <4>1, <4>2, <4>3 DEF SyncOf
    <3>6. QED BY <3>2, <3>4, <3>5 DEF SyncRec
  <2>2. CASE client[d].life \in {"gone", "touched"}
    BY <1>2, <2>2, GoneStays
  <2>3. CASE client[d].life \in {"queued", "open"}
    <3>1. SyncRec(client[d], sock[d])
      BY <2>3 DEF SyncInv
    <3>2. CASE ReadHeader(d) \/ ReadPayload(d)
      <4>1. client[d].life = "open"
        BY <3>2, ReadCases
      <4>2. client'[d].life = "open"
        BY <1>2, <4>1, ServedStays
      <4>3. QED BY <1>0, <3>1, <3>2, <4>2, SyncReadStep
    <3>3. CASE Arrive(d)
      BY <3>1, <3>3, SyncArrive
    <3>4. CASE PeerSend(d)
      <4>1. PICK r \in Requests :
              sock' = [sock EXCEPT ![d].asked = Append(@, r),
                                   ![d].wire = Bytes(Len(sock[d].asked) + 1, r)]
        BY <3>4 DEF PeerSend
      <4>2. sock[d].wire = <<>> /\ ~sock[d].hup /\ client' = client
        BY <3>4 DEF PeerSend, Connected
      <4>3. PICK asked, in, a2, b : /\ asked = sock[d].asked /\ in = sock[d].inq
                                    /\ a2 = Append(asked, r) /\ b = Bytes(Len(asked) + 1, r)
        OBVIOUS
      <4>4. /\ asked \in Seq(Requests) /\ in \in Seq(InCell) /\ sock[d].hup = FALSE
            /\ in \o <<>> = in
        BY <1>0, <4>2, <4>3, ConcatEmptySeq DEF SockRec
      <4>5. SyncOf(client[d], asked, FALSE, in)
        BY <3>1, <4>2, <4>3, <4>4 DEF SyncRec
      <4>6. SyncOf(client[d], a2, FALSE, in \o b)
        BY <1>0, <4>3, <4>4, <4>5, SyncSent
      <4>7. sock'[d] = [sock[d] EXCEPT !.asked = a2, !.wire = b]
        BY <1>0, <4>1, <4>3
      <4>8. sock'[d].asked = a2 /\ sock'[d].wire = b /\ sock'[d].inq = in
            /\ sock'[d].hup = FALSE
        BY <1>0, <4>3, <4>4, <4>7 DEF SockRec
      <4>9. QED BY <4>2, <4>6, <4>8 DEF SyncRec
    <3>5. CASE PeerHangup(d)
      <4>1. sock' = [sock EXCEPT ![d].hup = TRUE, ![d].wire = <<>>] /\ client' = client
        BY <3>5 DEF PeerHangup
      <4>2. PICK s, w, in : s = sock[d].inq /\ w = sock[d].wire /\ in = s \o w
        OBVIOUS
      <4>3. /\ sock'[d].asked = sock[d].asked /\ sock'[d].wire = <<>> /\ sock'[d].inq = s
            /\ sock'[d].hup = TRUE
        BY <1>0, <4>1, <4>2 DEF SockRec
      <4>4. /\ sock[d].asked \in Seq(Requests) /\ s \in Seq(InCell) /\ w \in Seq(InCell)
            /\ s \o <<>> = s
        BY <1>0, <4>2, ConcatEmptySeq DEF SockRec
      <4>5. SyncOf(client[d], sock[d].asked, sock[d].hup, in)
        BY <3>1, <4>2 DEF SyncRec
      <4>6. SyncOf(client[d], sock[d].asked, TRUE, s)
        BY <1>0, <4>2, <4>4, <4>5, SyncCut
      <4>7. QED BY <4>1, <4>3, <4>4, <4>6 DEF SyncRec
    <3>6. CASE /\ ~ReadHeader(d) /\ ~ReadPayload(d)
               /\ ~Arrive(d) /\ ~PeerSend(d) /\ ~PeerHangup(d)
      <4>1. /\ sock'[d].asked = sock[d].asked /\ sock'[d].hup = sock[d].hup
            /\ sock'[d].inq = sock[d].inq /\ sock'[d].wire = sock[d].wire
        BY <1>2, <3>6, SockStays
      <4>2. /\ client'[d].pending = client[d].pending
            /\ client'[d].ptype = client[d].ptype /\ client'[d].hdr = client[d].hdr
        <5>1. CASE client[d].life = "queued"
          <6>1. client[d] = Fresh("queued")
            BY <5>1 DEF LifeInv, LivingRec
          <6>2. client'[d] = client[d] \/ client'[d] \in {Fresh("open"), Fresh("gone")}
            BY <1>2, <5>1, PendingStep
          <6>3. QED BY <6>1, <6>2 DEF Fresh
        <5>2. CASE client[d].life = "open" /\ ~ClientHandleWritable(d)
          <6>1. client'[d].life = "open"
            BY <1>2, <5>2, ServedStays
          <6>2. QED BY <1>2, <3>6, <5>2, <6>1, HdrStays
        <5>3. CASE ClientHandleWritable(d)
          BY <5>3, WriteStep
        <5>4. QED BY <2>3, <5>1, <5>2, <5>3
      <4>3. QED BY <3>1, <4>1, <4>2 DEF SyncRec, SyncOf, NextCell
    <3>7. QED BY <3>2, <3>3, <3>4, <3>5, <3>6
  <2>4. QED BY <1>0, <2>1, <2>2, <2>3 DEF ClientRec, Lives
<1>3. QED BY <1>1, <1>2

LEMMA SyncInvariant == Spec => []SyncInv
<1>1. QED BY SyncInit, SyncStep, Invariant, LifeInvariant, PTL DEF Spec

\* However the bytes of the requests arrived, client_handle_readable looks
\* for a header where the peer put one, and takes for the payload of a
\* request the bytes that follow its own header.
THEOREM InSyncHolds == Spec => []InSync
<1>1. ASSUME IInv, SyncInv PROVE InSync
  <2> SUFFICES ASSUME NEW c \in Clients, client[c].life = "open"
               PROVE  /\ sock[c].inq # <<>> => sock[c].inq[1] = NextCell(client[c])
                      /\ client[c].pending > 0 =>
                           /\ client[c].hdr \in DOMAIN sock[c].asked
                           /\ client[c].pending = sock[c].asked[client[c].hdr].len
                           /\ client[c].ptype = sock[c].asked[client[c].hdr].type
    BY DEF InSync, NextCell
  <2>1. PICK s, w, in : s = sock[c].inq /\ w = sock[c].wire /\ in = s \o w
    OBVIOUS
  <2>2. s \in Seq(InCell) /\ w \in Seq(InCell) /\ Len(s) \in Nat
    BY <1>1, <2>1, LenProperties DEF IInv, TypeOK, SockRec
  <2>3. SyncOf(client[c], sock[c].asked, sock[c].hup, in)
    BY <1>1, <2>1 DEF SyncInv, SyncRec
  <2>4. ASSUME s # <<>> PROVE s[1] = NextCell(client[c])
    <3>1. Len(s) > 0
      BY <2>2, <2>4, EmptySeq
    <3>2. (s \o sock[c].wire)[1] = s[1] /\ s \o sock[c].wire # <<>>
      BY <2>2, <3>1, FirstOfJoined
    <3>3. in[1] = s[1] /\ in # <<>>
      BY <2>1, <3>2
    <3>4. QED BY <2>3, <3>3 DEF SyncOf
  <2>5. QED BY <2>1, <2>3, <2>4 DEF SyncOf
<1>2. QED BY <1>1, SyncInvariant, Invariant, PTL

-----------------------------------------------------------------------------
(* Where messages begin in a stream that gets one more. *)

Sent(s, u, m) == \E payload \in Nat : u = s \o Frame(m, payload)

LEMMA HeadsSent ==
  ASSUME NEW s \in Seq(OutCell), NEW u, NEW m \in Message, Sent(s, u, m), NEW kind
  PROVE  /\ u \in Seq(OutCell) /\ Len(u) > Len(s) /\ Len(s) \in Nat
         /\ \A i \in 1..Len(s) : u[i] = s[i]
         /\ u[Len(s) + 1].msg = m
         /\ Heads(u, kind) = Heads(s, kind) \cup
                               (IF m.kind = kind THEN {Len(s) + 1} ELSE {})
<1>p. PICK payload \in Nat : u = s \o Frame(m, payload)
  BY DEF Sent
<1>0. PICK n, f : n = HeaderSize + payload /\ f = Frame(m, payload)
  OBVIOUS
<1>1. n \in Nat /\ n > 0 /\ f \in Seq(OutCell) /\ Len(f) = n /\ Len(s) \in Nat
  BY <1>0, SizesNat, FrameType, LenProperties
<1>2. ASSUME NEW i \in 1..n PROVE f[i].msg = m /\ f[i].at = i
  <2>1. i \in 1..HeaderSize + payload
    BY <1>0
  <2>2. Frame(m, payload)[i] = [msg |-> m, at |-> i, left |-> HeaderSize + payload - i]
    BY <2>1, Zenon DEF Frame
  <2>3. QED BY <1>0, <2>2
<1>3. /\ u \in Seq(OutCell) /\ Len(u) = Len(s) + n
      /\ \A i \in 1..Len(s) + n : u[i] = IF i <= Len(s) THEN s[i] ELSE f[i - Len(s)]
      /\ DOMAIN u = 1..Len(s) + n /\ DOMAIN s = 1..Len(s)
  <2>1. u = s \o f
    BY <1>p, <1>0
  <2>2. u \in Seq(OutCell) /\ Len(u) = Len(s) + Len(f)
        /\ \A i \in 1..Len(s) + Len(f) : u[i] = IF i <= Len(s) THEN s[i] ELSE f[i - Len(s)]
    BY <1>1, <2>1, ConcatProperties
  <2>3. QED BY <1>1, <2>2, LenProperties
<1>4. \A i \in 1..Len(s) : u[i] = s[i]
  BY <1>1, <1>3
<1>5. ASSUME NEW i \in Len(s) + 1..Len(s) + n
      PROVE  u[i].msg = m /\ u[i].at = i - Len(s)
  <2>1. i - Len(s) \in 1..n /\ ~(i <= Len(s)) /\ i \in 1..Len(s) + n
    BY <1>1
  <2>2. u[i] = f[i - Len(s)]
    BY <1>3, <2>1
  <2>3. QED BY <1>2, <2>1, <2>2
<1>6. u[Len(s) + 1].msg = m
  <2>1. Len(s) + 1 \in Len(s) + 1..Len(s) + n
    BY <1>1
  <2>2. QED BY <1>5, <2>1
<1>7. ASSUME NEW i
      PROVE  i \in Heads(u, kind) <=>
               i \in Heads(s, kind) \/ (m.kind = kind /\ i = Len(s) + 1)
  <2>1. CASE i \in 1..Len(s)
    <3>1. i \in 1..Len(s) + n /\ i # Len(s) + 1
      BY <1>1, <2>1
    <3>2. QED BY <1>3, <1>4, <2>1, <3>1 DEF Heads
  <2>2. CASE i \in Len(s) + 1..Len(s) + n
    <3>1. i \notin 1..Len(s) /\ i \in 1..Len(s) + n /\ (i - Len(s) = 1 <=> i = Len(s) + 1)
      BY <1>1, <2>2
    <3>2. QED BY <1>3, <1>5, <2>2, <3>1 DEF Heads
  <2>3. CASE i \notin 1..Len(s) + n
    <3>1. i \notin 1..Len(s) /\ i # Len(s) + 1
      BY <1>1, <2>3
    <3>2. QED BY <1>3, <2>3, <3>1 DEF Heads
  <2>4. i \in 1..Len(s) \/ i \in Len(s) + 1..Len(s) + n \/ i \notin 1..Len(s) + n
    BY <1>1
  <2>5. QED BY <2>1, <2>2, <2>3, <2>4
<1>8. Heads(u, kind) = Heads(s, kind) \cup (IF m.kind = kind THEN {Len(s) + 1} ELSE {})
  BY <1>7
<1>9. QED BY <1>1, <1>3, <1>4, <1>6, <1>8

\* Another message leaves the replies as they are.
LEMMA RepliedAside ==
  ASSUME NEW s \in Seq(OutCell), NEW u, NEW m \in Message, Sent(s, u, m),
         m.kind # "reply",
         NEW asked, NEW k, Replied(s, asked, k)
  PROVE  Replied(u, asked, k)
<1>1. /\ Heads(u, "reply") = Heads(s, "reply")
      /\ \A i \in Heads(s, "reply") : u[i] = s[i]
  <2>0. /\ \A i \in 1..Len(s) : u[i] = s[i]
        /\ Heads(u, "reply") = Heads(s, "reply") \cup
                                 (IF m.kind = "reply" THEN {Len(s) + 1} ELSE {})
    BY HeadsSent
  <2>1. Heads(u, "reply") = Heads(s, "reply") /\ \A i \in 1..Len(s) : u[i] = s[i]
    BY <2>0
  <2>2. Heads(s, "reply") \subseteq 1..Len(s)
    BY LenProperties DEF Heads
  <2>3. QED BY <2>1, <2>2
<1>2. {u[i].msg.n : i \in Heads(u, "reply")} = {s[i].msg.n : i \in Heads(s, "reply")}
  BY <1>1
<1>3. QED BY <1>1, <1>2 DEF Replied

\* The next request is answered.
LEMMA RepliedNext ==
  ASSUME NEW s \in Seq(OutCell), NEW u, NEW m \in Message, Sent(s, u, m),
         NEW k \in Nat, NEW asked,
         m.kind = "reply", m.n = k + 1, m.type = asked[k + 1].type,
         Replied(s, asked, k)
  PROVE  Replied(u, asked, k + 1)
<1> DEFINE old == Heads(s, "reply")
           new == Heads(u, "reply")
<1>1. /\ Len(s) \in Nat /\ new = old \cup {Len(s) + 1} /\ u[Len(s) + 1].msg = m
      /\ old \subseteq 1..Len(s)
      /\ \A i \in old : u[i] = s[i]
  <2>1. /\ new = old \cup {Len(s) + 1} /\ u[Len(s) + 1].msg = m
        /\ \A i \in 1..Len(s) : u[i] = s[i]
    BY HeadsSent
  <2>2. old \subseteq 1..Len(s) /\ Len(s) \in Nat
    BY LenProperties DEF Heads
  <2>3. QED BY <2>1, <2>2
<1>2. /\ \A i, j \in old : i < j => s[i].msg.n < s[j].msg.n
      /\ {s[i].msg.n : i \in old} = 1..k
      /\ \A i \in old : s[i].msg.type = asked[s[i].msg.n].type
  BY DEF Replied
<1> HIDE DEF old, new
<1>3. ASSUME NEW i \in new, NEW j \in new, i < j PROVE u[i].msg.n < u[j].msg.n
  <2>1. CASE i \in old /\ j \in old
    BY <1>1, <1>2, <1>3, <2>1
  <2>2. CASE i \in old /\ j = Len(s) + 1
    <3>1. s[i].msg.n \in 1..k
      BY <1>2, <2>2
    <3>2. u[i].msg.n < k + 1
      BY <1>1, <2>2, <3>1
    <3>3. QED BY <1>1, <2>2, <3>2
  <2>3. CASE i = Len(s) + 1
    <3>1. j \in Int /\ j <= Len(s) + 1
      BY <1>1
    <3>2. QED BY <1>1, <1>3, <2>3, <3>1
  <2>4. QED BY <1>1, <2>1, <2>2, <2>3
<1>4. {u[i].msg.n : i \in new} = 1..k + 1
  <2>1. {u[i].msg.n : i \in new} = {s[i].msg.n : i \in old} \cup {k + 1}
    BY <1>1
  <2>2. 1..k + 1 = (1..k) \cup {k + 1}
    OBVIOUS
  <2>3. QED BY <1>2, <2>1, <2>2
<1>5. ASSUME NEW i \in new PROVE u[i].msg.type = asked[u[i].msg.n].type
  BY <1>1, <1>2
<1>6. QED BY <1>3, <1>4, <1>5 DEF Replied, new

\* One more request is made.
LEMMA RepliedAsked ==
  ASSUME NEW out, NEW asked \in Seq(Requests), NEW r \in Requests,
         NEW k \in 0..Len(asked), Replied(out, asked, k)
  PROVE  Replied(out, Append(asked, r), k)
<1>1. Len(asked) \in Nat /\ \A n \in 1..k : Append(asked, r)[n] = asked[n]
  BY AppendProperties, LenProperties
<1>2. \A i \in Heads(out, "reply") : out[i].msg.n \in 1..k
  BY DEF Replied
<1>3. QED BY <1>1, <1>2 DEF Replied

\* The beginning of a stream holds the replies to fewer requests.
LEMMA RepliedCut ==
  ASSUME NEW s \in Seq(OutCell), NEW t \in Seq(OutCell), NEW asked, NEW k \in Nat,
         NEW u, u = s \o t, Replied(u, asked, k)
  PROVE  \E h \in 0..k : Replied(s, asked, h)
<1> DEFINE all == Heads(u, "reply")
           kept == Heads(s, "reply")
<1>1. /\ Len(s) \in Nat /\ kept = {i \in all : i <= Len(s)} /\ all \subseteq Nat
      /\ \A i \in kept : s[i] = u[i]
  <2>1. /\ Len(s) \in Nat /\ Len(t) \in Nat /\ Len(u) = Len(s) + Len(t) /\ u \in Seq(OutCell)
        /\ \A i \in 1..Len(s) + Len(t) : u[i] = IF i <= Len(s) THEN s[i] ELSE t[i - Len(s)]
    BY ConcatProperties, LenProperties
  <2>2. DOMAIN s = 1..Len(s) /\ DOMAIN u = 1..Len(s) + Len(t)
    BY <2>1, LenProperties
  <2>3. \A i \in 1..Len(s) : u[i] = s[i] /\ i \in 1..Len(s) + Len(t) /\ i <= Len(s)
    BY <2>1
  <2>4. \A i \in 1..Len(s) + Len(t) : i <= Len(s) => i \in 1..Len(s)
    BY <2>1
  <2>5. QED BY <2>1, <2>2, <2>3, <2>4 DEF Heads
<1>2. /\ \A i, j \in all : i < j => u[i].msg.n < u[j].msg.n
      /\ {u[i].msg.n : i \in all} = 1..k
      /\ \A i \in all : u[i].msg.type = asked[u[i].msg.n].type
  BY DEF Replied
<1> HIDE DEF all, kept
<1> DEFINE Missing == {x \in 1..k + 1 : \A i \in kept : s[i].msg.n # x}
<1>3. \A i \in kept : s[i].msg.n \in 1..k
  BY <1>1, <1>2
<1>4. k + 1 \in Missing /\ Missing \subseteq Nat
  BY <1>3
<1>5. PICK x \in Missing : \A y \in Missing : x <= y
  <2> HIDE DEF Missing
  <2>1. QED BY <1>4, LeastNat
<1>6. x \in 1..k + 1 /\ \A i \in kept : s[i].msg.n # x
  OBVIOUS
<1>7. ASSUME NEW y \in 1..x - 1 PROVE \E i \in kept : s[i].msg.n = y
  <2>1. y \in 1..k + 1 /\ ~(x <= y)
    BY <1>6
  <2>2. QED BY <1>5, <2>1
<1>8. ASSUME NEW i \in kept PROVE s[i].msg.n \in 1..x - 1
  <2>1. SUFFICES ASSUME s[i].msg.n > x PROVE FALSE
    BY <1>3, <1>6
  <2>2. x \in 1..k
    BY <1>3, <1>6, <2>1
  <2>3. PICK j \in all : u[j].msg.n = x
    BY <1>2, <2>2
  <2>4. j \notin kept
    BY <1>1, <1>6, <2>3
  <2>5. i < j /\ i \in all
    <3>1. i \in all /\ i <= Len(s) /\ i \in Nat /\ j \in Nat /\ ~(j <= Len(s))
      BY <1>1, <2>4
    <3>2. QED BY <1>1, <3>1
  <2>6. s[i].msg.n < x
    BY <1>1, <1>2, <2>3, <2>5
  <2>7. QED BY <1>3, <1>6, <2>1, <2>6
<1>9. {s[i].msg.n : i \in kept} = 1..x - 1
  BY <1>7, <1>8
<1>10. x - 1 \in 0..k
  BY <1>6
<1>11. Replied(s, asked, x - 1)
  BY <1>1, <1>2, <1>9 DEF Replied, kept
<1>12. QED BY <1>10, <1>11

\* A message that is queued is sent.
LEMMA LongerSent ==
  ASSUME NEW got \in Seq(OutCell), NEW k \in GoodRec, NEW k2, NEW m \in Message,
         NEW payload \in Nat, Longer(k, k2, m, payload)
  PROVE  Sent(got \o k.buf, got \o k2.buf, m) /\ got \o k.buf \in Seq(OutCell)
<1>1. PICK b, f : b = k.buf /\ f = Frame(m, payload)
  OBVIOUS
<1>2. b \in Seq(OutCell) /\ f \in Seq(OutCell) /\ k2.buf = b \o f
  BY <1>1, FrameType DEF GoodRec, ClientRec, Longer
<1>3. got \o (b \o f) = (got \o b) \o f /\ got \o b \in Seq(OutCell)
  BY SMTT(30), <1>2, Regroup, ConcatProperties
<1>4. got \o k2.buf = (got \o k.buf) \o Frame(m, payload)
  BY <1>1, <1>2, <1>3
<1>5. QED BY <1>1, <1>3, <1>4 DEF Sent

\* The records that leave the first n requests answered to a client to which
\* got has been written.
Numbered(got, asked, n) ==
  {k \in GoodRec : LivingRec(k) /\ (k.life = "open" => Replied(got \o k.buf, asked, n))}

LEMMA NumberedEdited ==
  ASSUME NEW got, NEW asked, NEW n, NEW R, R = Numbered(got, asked, n)
  PROVE  Fresh("gone") \in R /\ KeptWhenRead(R) /\ KeptWhenMasked(R)
<1>1. Fresh("gone") \in R
  BY GoodKept DEF Numbered, LivingRec
<1>2. KeptWhenRead(R)
  <2> SUFFICES ASSUME NEW k \in R, NEW p \in Nat, NEW t \in RequestTypes \cup {"none"},
                      NEW h \in Nat, k.life = "open"
               PROVE  [k EXCEPT !.pending = p, !.ptype = t, !.hdr = h] \in R
    BY DEF KeptWhenRead
  <2>1. PICK k2 : k2 = [k EXCEPT !.pending = p, !.ptype = t, !.hdr = h]
    OBVIOUS
  <2>2. k \in GoodRec /\ LivingRec(k) /\ Replied(got \o k.buf, asked, n)
    BY DEF Numbered
  <2>3. k2 \in GoodRec /\ k2.life = k.life /\ k2.buf = k.buf
    BY <2>1, <2>2, GoodKept DEF GoodRec, ClientRec
  <2>4. QED BY <2>1, <2>2, <2>3 DEF Numbered, LivingRec
<1>3. KeptWhenMasked(R)
  <2> SUFFICES ASSUME NEW k \in R, NEW subs \in SUBSET Bits, k.life = "open"
               PROVE  [k EXCEPT !.subs = subs] \in R
    BY DEF KeptWhenMasked
  <2>1. PICK k2 : k2 = [k EXCEPT !.subs = subs]
    OBVIOUS
  <2>2. k \in GoodRec /\ LivingRec(k) /\ Replied(got \o k.buf, asked, n)
    BY DEF Numbered
  <2>3. k2 \in GoodRec /\ k2.life = k.life /\ k2.buf = k.buf
    BY <2>1, <2>2, GoodKept DEF GoodRec, ClientRec
  <2>4. QED BY <2>1, <2>2, <2>3 DEF Numbered, LivingRec
<1>4. QED BY <1>1, <1>2, <1>3

\* A message that is not a reply leaves them so, the next reply adds one.
LEMMA NumberedTold ==
  ASSUME NEW got \in Seq(OutCell), NEW asked, NEW n \in Nat, NEW k \in Numbered(got, asked, n),
         NEW m \in Message, NEW payload \in Nat, NEW oom \in BOOLEAN
  PROVE  /\ m.kind # "reply" => SendReply(k, m, payload, oom) \in Numbered(got, asked, n)
         /\ m.kind = "reply" /\ m.n = n + 1 /\ m.type = asked[n + 1].type =>
              SendReply(k, m, payload, oom) \in Numbered(got, asked, n + 1)
<1>0. /\ k \in GoodRec /\ LivingRec(k)
      /\ k.life = "open" => Replied(got \o k.buf, asked, n)
      /\ \E k2 : k2 = SendReply(k, m, payload, oom)
  BY DEF Numbered
<1>p. PICK k2 : k2 = SendReply(k, m, payload, oom)
  BY <1>0
<1>1. /\ k2 \in GoodRec
      /\ \/ k.life # "open" /\ k2.life = "touched" /\ k2.buf = k.buf
         \/ k.life = "open" /\ k2 = Fresh("gone") /\ k2.life = "gone" /\ k2.buf = <<>>
         \/ k.life = "open" /\ k2.life = "open" /\ Longer(k, k2, m, payload)
  BY <1>0, <1>p, SendReplyCases
<1>2. LivingRec(k2)
  BY <1>0, <1>1 DEF LivingRec
<1>3. ASSUME k2.life = "open"
      PROVE  /\ m.kind # "reply" => Replied(got \o k2.buf, asked, n)
             /\ m.kind = "reply" /\ m.n = n + 1 /\ m.type = asked[n + 1].type =>
                  Replied(got \o k2.buf, asked, n + 1)
  <2>1. k.life = "open" /\ Longer(k, k2, m, payload)
    BY <1>1, <1>3
  <2>2. PICK s, u : s = got \o k.buf /\ u = got \o k2.buf
    OBVIOUS
  <2>3. s \in Seq(OutCell) /\ Sent(s, u, m) /\ Replied(s, asked, n)
    BY <1>0, <2>1, <2>2, LongerSent
  <2>4. m.kind # "reply" => Replied(u, asked, n)
    BY <2>3, RepliedAside
  <2>5. m.kind = "reply" /\ m.n = n + 1 /\ m.type = asked[n + 1].type =>
          Replied(u, asked, n + 1)
    BY <2>3, RepliedNext
  <2>6. QED BY <2>2, <2>4, <2>5
<1>4. QED BY <1>p, <1>1, <1>2, <1>3 DEF Numbered

-----------------------------------------------------------------------------
(* The steps. *)

\* The request that client_handle_readable is at.
AtRequest(k) == IF k.pending > 0 THEN k.hdr ELSE k.hdr + 1

\* The header of the n-th request is remembered, its payload awaited.
HeaderRead(d, n) ==
  LET r == sock[d].asked[n]
  IN /\ r.len > 0 /\ client[d].pending = 0
     /\ client' = [client EXCEPT ![d].pending = r.len, ![d].ptype = r.type, ![d].hdr = n]
     /\ \E q : sock' = [sock EXCEPT ![d].inq = q]
     /\ UNCHANGED <<executing, nev>>

\* Behind the header of a request with a payload comes that payload.
LEMMA PayloadFollows ==
  ASSUME NEW s \in Seq(InCell), NEW w \in Seq(InCell), NEW asked, NEW n, NEW t,
         asked[n].len \in Nat, asked[n].len > 0, Consecutive(asked, s \o w),
         s[1] = [n |-> n, off |-> 1], Len(s) >= HeaderSize,
         Rest(s, t, HeaderSize), Len(t) \in Nat, Len(t) > 0
  PROVE  t[1].n = n
<1>1. PICK in : in = s \o w
  OBVIOUS
<1>2. HeaderSize \in Nat \ {0} /\ Len(s) \in Nat /\ Len(w) \in Nat
  BY SizesAssumption, LenProperties
<1>3. /\ Len(in) = Len(s) + Len(w)
      /\ \A i \in 1..Len(s) + Len(w) : in[i] = IF i <= Len(s) THEN s[i] ELSE w[i - Len(s)]
  BY <1>1, <1>2, ConcatProperties
<1>4. t[1] = s[1 + HeaderSize] /\ 1 + HeaderSize \in 1..Len(s)
  BY <1>2 DEF Rest
<1>5. in[1] = [n |-> n, off |-> 1] /\ in[1 + HeaderSize] = s[1 + HeaderSize]
  <2>1. 1 \in 1..Len(s) + Len(w) /\ 1 <= Len(s)
    BY <1>2, <1>4
  <2>2. 1 + HeaderSize \in 1..Len(s) + Len(w) /\ 1 + HeaderSize <= Len(s)
    BY <1>2, <1>4
  <2>3. QED BY <1>3, <2>1, <2>2
<1>6. 1 \in 1..Len(in) /\ HeaderSize \in 0..Len(in) - 1
  BY <1>2, <1>3, <1>4
<1>7. in[1].n = n /\ in[1].off + HeaderSize <= Size(asked, n)
  BY <1>2, <1>5 DEF Size
<1>8. in[1 + HeaderSize] = [n |-> in[1].n, off |-> in[1].off + HeaderSize]
  BY <1>1, <1>6, <1>7 DEF Consecutive
<1>9. QED BY <1>4, <1>5, <1>7, <1>8

\* The request that is read is the one the client is at, and what it is
\* handled as, and with, is its own type and payload.
LEMMA ReadsWhole ==
  ASSUME IInv, NEW d \in Clients, SyncRec(client[d], sock[d]),
         ReadHeader(d) \/ ReadPayload(d)
  PROVE  \/ Disconnect(d)
         \/ \E n \in 1..Len(sock[d].asked) :
              /\ n = AtRequest(client[d])
              /\ \/ HeaderRead(d, n)
                 \/ \E q :
                      /\ ClientHandleCommand(d, sock[d].asked[n].type, n, sock[d].asked[n].len, q)
                      /\ sock[d].asked[n].len > 0 => q[1].n = n
<1> DEFINE q == sock[d].inq
           asked == sock[d].asked
<1>0. /\ asked \in Seq(Requests) /\ q \in Seq(InCell) /\ sock[d].wire \in Seq(InCell)
      /\ HeaderSize \in Nat \ {0} /\ Len(q) \in Nat /\ client[d].pending \in Nat
      /\ client[d].hdr \in Nat
  <2>1. sock[d] \in SockRec /\ client[d] \in ClientRec
    BY DEF IInv, TypeOK
  <2>2. QED BY <2>1, SizesAssumption, LenProperties DEF SockRec, ClientRec
<1>1. CASE ReadPayload(d)
  <2>1. /\ ClientHandleCommand(d, client[d].ptype, client[d].hdr, client[d].pending, q)
        /\ client[d].pending > 0
    BY <1>1 DEF ReadPayload
  <2>2. /\ client[d].hdr \in 1..Len(asked)
        /\ client[d].ptype = asked[client[d].hdr].type
        /\ client[d].pending = asked[client[d].hdr].len
    <3>1. /\ client[d].hdr \in DOMAIN asked /\ client[d].ptype = asked[client[d].hdr].type
          /\ client[d].pending = asked[client[d].hdr].len
      BY <2>1 DEF SyncRec, SyncOf
    <3>2. QED BY <1>0, <3>1, LenProperties
  <2>3. q[1].n = client[d].hdr
    <3>1. Len(q) > 0
      <4>1. Len(q) >= client[d].pending
        BY <1>1 DEF ReadPayload
      <4> HIDE DEF q
      <4>2. QED BY <1>0, <2>1, <4>1
    <3>2. PICK s, w, in : s = q /\ w = sock[d].wire /\ in = s \o w
      OBVIOUS
    <3>3. s \in Seq(InCell) /\ w \in Seq(InCell) /\ Len(s) > 0
      BY <1>0, <3>1, <3>2
    <3> HIDE DEF q
    <3>4. in[1] = s[1] /\ in # <<>>
      BY <3>2, <3>3, FirstOfConcat
    <3>5. SyncOf(client[d], asked, sock[d].hup, in)
      BY <3>2 DEF SyncRec, q
    <3>6. in[1] = NextCell(client[d])
      BY <3>4, <3>5 DEF SyncOf
    <3>7. QED BY <2>1, <3>2, <3>4, <3>6 DEF NextCell
  <2>4. QED BY <1>0, <2>1, <2>2, <2>3 DEF AtRequest
<1>2. CASE ReadHeader(d)
  <2> DEFINE n == q[1].n
             r == asked[n]
             rest == SubSeq(q, HeaderSize + 1, Len(q))
  <2>1. client[d].pending = 0 /\ Len(q) > 0 /\ Len(q) >= HeaderSize
    <3>1. client[d].pending = 0 /\ Len(q) >= HeaderSize
      BY <1>2 DEF ReadHeader
    <3> HIDE DEF q
    <3>2. QED BY <1>0, <3>1
  <2>2. q[1] = NextCell(client[d]) /\ n \in 1..Len(asked)
    <3>1. PICK s, w, in : s = q /\ w = sock[d].wire /\ in = s \o w
      OBVIOUS
    <3>2. in[1] = s[1] /\ 1 \in 1..Len(in)
      <4>1. s \in Seq(InCell) /\ w \in Seq(InCell) /\ Len(s) > 0
        BY <1>0, <2>1, <3>1
      <4> HIDE DEF q
      <4>2. in[1] = s[1] /\ in # <<>>
        BY <3>1, <4>1, FirstOfConcat
      <4>3. in \in Seq(InCell)
        BY <3>1, <4>1, ConcatProperties
      <4>4. QED BY <4>2, <4>3, EmptySeq, LenProperties
    <3>3. SyncOf(client[d], asked, sock[d].hup, in)
      BY <3>1 DEF SyncRec
    <3>4. in # <<>>
      BY <3>2, LenProperties
    <3>5. in[1] = NextCell(client[d]) /\ in[1].n \in 1..Len(asked)
      BY <3>2, <3>3, <3>4 DEF SyncOf, Valid
    <3>6. QED BY <3>1, <3>2, <3>5
  <2>3. n = AtRequest(client[d])
    BY <2>1, <2>2 DEF NextCell, AtRequest
  <2>4. r.len \in Nat /\ Len(rest) \in Nat /\ Rest(q, rest, HeaderSize)
    <3>1. r \in Requests
      BY <1>0, <2>2, ElementOfSeq
    <3>2. Rest(q, rest, HeaderSize)
      <4>1. HeaderSize \in 0..Len(q)
        BY <1>0, <2>1
      <4> HIDE DEF q
      <4>2. QED BY <1>0, <4>1, RestSubSeq
    <3>3. QED BY <3>1, <3>2, RequestsAssumption, LenProperties DEF Request, Rest
  <2>p. Len(rest) > 0 /\ r.len > 0 => rest[1].n = n
    <3>1. Consecutive(asked, q \o sock[d].wire)
      BY DEF SyncRec, SyncOf
    <3>2. q[1] = [n |-> n, off |-> 1]
      BY <2>1, <2>2 DEF NextCell
    <3> HIDE DEF q, rest, n, asked
    <3>3. QED BY <1>0, <2>1, <2>4, <3>1, <3>2, PayloadFollows
  <2>5. \/ Disconnect(d)
        \/ ClientHandleCommand(d, r.type, n, r.len, rest) /\ Len(rest) >= r.len
        \/ /\ ~(Len(rest) >= r.len)
           /\ client' = [client EXCEPT ![d].pending = r.len, ![d].ptype = r.type, ![d].hdr = n]
           /\ sock' = [sock EXCEPT ![d].inq = rest]
           /\ UNCHANGED <<server, serves, queue, listed, executing, nev>>
    BY <1>2 DEF ReadHeader
  <2> HIDE DEF rest
  <2>6. CASE ClientHandleCommand(d, r.type, n, r.len, rest) /\ Len(rest) >= r.len
    <3>1. r.len > 0 => rest[1].n = n
      <4>1. r.len > 0 => Len(rest) > 0
        <5>1. Len(rest) >= r.len
          BY <2>6
        <5>2. r.len \in Nat /\ Len(rest) \in Nat
          BY <2>4
        <5> HIDE DEF r
        <5>3. QED BY <5>1, <5>2
      <4>2. QED BY <2>p, <4>1
    <3>2. QED BY <2>2, <2>3, <2>6, <3>1
  <2>7. CASE /\ ~(Len(rest) >= r.len)
             /\ client' = [client EXCEPT ![d].pending = r.len, ![d].ptype = r.type, ![d].hdr = n]
             /\ sock' = [sock EXCEPT ![d].inq = rest]
             /\ UNCHANGED <<server, serves, queue, listed, executing, nev>>
    <3>1. r.len > 0
      <4>1. ~(Len(rest) >= r.len)
        BY <2>7
      <4>2. r.len \in Nat /\ Len(rest) \in Nat
        BY <2>4
      <4> HIDE DEF r
      <4>3. QED BY <4>1, <4>2
    <3>2. HeaderRead(d, n)
      BY <2>1, <2>7, <3>1 DEF HeaderRead
    <3>3. QED BY <2>2, <2>3, <3>2
  <2>8. QED BY <2>5, <2>6, <2>7
<1>3. QED BY <1>1, <1>2

LEMMA ReadsNext ==
  ASSUME IInv, NEW d \in Clients, SyncRec(client[d], sock[d]),
         ReadHeader(d) \/ ReadPayload(d)
  PROVE  \/ Disconnect(d)
         \/ \E n \in 1..Len(sock[d].asked) :
              /\ n = AtRequest(client[d])
              /\ \/ HeaderRead(d, n)
                 \/ \E len \in Nat : \E q :
                      ClientHandleCommand(d, sock[d].asked[n].type, n, len, q)
<1>1. \A n \in 1..Len(sock[d].asked) : sock[d].asked[n].len \in Nat
  <2>1. sock[d].asked \in Seq(Requests)
    BY DEF IInv, TypeOK, SockRec
  <2>2. QED BY <2>1, ElementOfSeq, RequestsAssumption DEF Request
<1>2. QED BY <1>1, ReadsWhole, Zenon

\* What happens to a client that has been accepted, that is not written to,
\* whose requests are not read and that does not get the reply to its
\* command: it may be told an event or be disconnected.
EventSent(d) ==
  \E e \in Events, payload \in Nat, oom \in BOOLEAN :
    /\ e \in SubscribeNames /\ EventBit(e) \in client[d].subs
    /\ client'[d] = SendReply(client[d], Event(e, nev + 1), payload, oom)

LEMMA QuietStep ==
  ASSUME IInv, LifeInv, Next, NEW d \in Clients,
         client[d].life \notin {"new", "queued"}, ~ClientHandleWritable(d),
         ~ReadHeader(d), ~ReadPayload(d), ~(CommandDone /\ executing = d)
  PROVE  client'[d] = client[d] \/ client'[d] = Fresh("gone") \/ EventSent(d)
<1> DEFINE Quiet == client'[d] = client[d] \/ client'[d] = Fresh("gone") \/ EventSent(d)
<1>0. /\ client \in [Clients -> ClientRec] /\ queue \in Seq(Clients)
  BY DEF IInv, TypeOK
<1>1. ASSUME NEW c \in Clients, Disconnect(c) PROVE Quiet
  BY <1>0, <1>1 DEF Disconnect, ClientsBecome, Disconnected
<1>2. CASE Serve \/ ServeFails \/ HandleDisplayDestroy
  BY <1>0, <1>2 DEF Serve, ServeFails, HandleDisplayDestroy, Disconnected
<1>3. CASE HandleConnection
  <2>1. /\ \/ client' = [client EXCEPT ![Head(queue)] = Fresh("open")]
           \/ client' = [client EXCEPT ![Head(queue)] = Fresh("gone")]
        /\ queue # <<>>
    BY <1>3 DEF HandleConnection
  <2>2. Head(queue) = queue[1] /\ 1 \in DOMAIN queue
    BY <1>0, <2>1
  <2>3. Head(queue) # d
    BY <2>2 DEF LifeInv
  <2>4. QED BY <1>0, <2>1, <2>3
<1>4. CASE CommandDone
  BY <1>0, <1>4 DEF CommandDone, ClientsBecome
<1>5. ASSUME NEW e \in PluginEvents, Publish(e) PROVE Quiet
  <2>1. e \in Events /\ e \in SubscribeNames
    BY DEF PluginEvents, SubscribeNames, Events, EventNo
  <2>2. QED BY <1>5, <2>1, EventTold, Zenon DEF EventSent
<1>6. ASSUME NEW c \in Clients, ReadHeader(c) \/ ReadPayload(c) PROVE Quiet
  <2>0. c # d
    BY <1>6
  <2>1. CASE HeaderKept(c)
    BY <1>0, <2>0, <2>1 DEF HeaderKept
  <2>2. ASSUME NEW t \in RequestTypes \cup {"none"}, NEW n \in Nat, NEW len \in Nat, NEW q,
               ClientHandleCommand(c, t, n, len, q)
        PROVE  Quiet
    <3> DEFINE cs == [client EXCEPT ![c].pending = 0, ![c].ptype = t, ![c].hdr = n]
               arg == IF len = 0 THEN <<>> ELSE sock[c].asked[q[1].n].arg
    <3>1. Handled(cs, c, t, n, arg)
      BY <2>2 DEF ClientHandleCommand, Handled
    <3>2. DOMAIN cs = Clients /\ \A x \in Clients \ {c} : cs[x] = client[x]
      BY <1>0
    <3> HIDE DEF cs, arg
    <3>3. client'[d] = client[d] \/ TickedOnly(d)
      BY <2>0, <3>1, <3>2, HandledOthers
    <3>4. "tick" \in Events /\ "tick" \in SubscribeNames
      BY DEF SubscribeNames, Events, EventNo
    <3>5. QED BY <3>3, <3>4, Zenon DEF TickedOnly, EventSent
  <2>3. CASE RequestHandled(c)
    BY <2>2, <2>3, Zenon DEF RequestHandled
  <2>4. QED BY <1>1, <1>6, <2>1, <2>3, ReadCases
<1>7. ASSUME NEW c \in Clients, ClientHandleWritable(c) PROVE Quiet
  BY <1>0, <1>7 DEF ClientHandleWritable, Written
<1>8. ASSUME NEW c \in Clients, HandleHangup(c) \/ SocketError(c) PROVE Quiet
  BY <1>1, <1>8 DEF HandleHangup, SocketError
<1>9. ASSUME NEW c \in Clients, Peer(c) PROVE Quiet
  BY <1>0, <1>9 DEF Peer, PeerConnect, PeerSend, Arrive, PeerHangup
<1>10. QED
  BY <1>2, <1>3, <1>4, <1>5, <1>6, <1>7, <1>8, <1>9 DEF Next, Plugin, Handler

\* The requests a peer has made change only when it makes one.
LEMMA AskedStays ==
  ASSUME IInv, Next, NEW d \in Clients, ~PeerSend(d)
  PROVE  sock'[d].asked = sock[d].asked
<1>0. sock \in [Clients -> SockRec] /\ sock[d] \in SockRec
  BY DEF IInv, TypeOK
<1>1. CASE ReadHeader(d) \/ ReadPayload(d)
  <2>1. ASSUME NEW q, sock' = [sock EXCEPT ![d].inq = q] PROVE sock'[d].asked = sock[d].asked
    BY <1>0, <2>1 DEF SockRec
  <2>2. Disconnect(d) => sock' = sock
    BY DEF Disconnect
  <2>3. (\E q : sock' = [sock EXCEPT ![d].inq = q]) => sock'[d].asked = sock[d].asked
    BY <2>1
  <2>4. HeaderKept(d) => \E q : sock' = [sock EXCEPT ![d].inq = q]
    BY DEF HeaderKept
  <2>5. QED BY <1>1, <2>2, <2>3, <2>4, RequestTaken, ReadCases
<1>2. CASE Arrive(d)
  <2>1. PICK x, y : sock' = [sock EXCEPT ![d].inq = x, ![d].wire = y]
    BY <1>2 DEF Arrive
  <2>2. QED BY <1>0, <2>1 DEF SockRec
<1>3. CASE PeerHangup(d)
  BY <1>0, <1>3 DEF PeerHangup, SockRec
<1>4. QED BY <1>1, <1>2, <1>3, SockStays

\* Whose command is being executed changes only by reading it and by its end.
LEMMA ExecutingStays ==
  ASSUME IInv, Next, NEW d \in Clients, ~ReadHeader(d), ~ReadPayload(d),
         ~(CommandDone /\ executing = d), client'[d].life = "open"
  PROVE  executing' = d <=> executing = d
<1>0. d # NoClient /\ client \in [Clients -> ClientRec]
  BY ClientsAssumption DEF IInv, TypeOK
<1>1. CASE Plugin
  <2>1. CASE ServeFails
    <3>1. client'[d].life = "new" \/ client'[d].life = "gone"
      BY <1>0, <2>1 DEF ServeFails, Fresh
    <3>2. QED BY <3>1
  <2>2. CASE CommandDone
    BY <1>0, <2>2 DEF CommandDone
  <2>3. QED BY <1>1, <2>1, <2>2 DEF Plugin, Serve, HandleDisplayDestroy, HandleConnection,
                                    Publish
<1>2. ASSUME NEW c \in Clients, ReadHeader(c) \/ ReadPayload(c)
      PROVE  executing' = d <=> executing = d
  <2>1. executing = NoClient /\ c # d
    BY <1>2 DEF ReadHeader, ReadPayload, Dispatchable, Idle
  <2>2. executing' \in {executing, c}
    BY <1>2, ReadLists
  <2>3. QED BY <1>0, <2>1, <2>2
<1>3. ASSUME NEW c \in Clients, HandleHangup(c) \/ SocketError(c)
                                \/ ClientHandleWritable(c) \/ Peer(c)
      PROVE  executing' = executing
  BY <1>3 DEF HandleHangup, SocketError, Disconnect, ClientHandleWritable, Peer,
              PeerConnect, PeerSend, Arrive, PeerHangup
<1>4. QED BY <1>1, <1>2, <1>3 DEF Next, Handler

\* What is known of a client of which n requests have been answered, doing
\* saying whether its command is being executed.
RepliesOf(k, got, asked, doing, n) ==
  /\ n \in 0..Len(asked)
  /\ Replied(got \o k.buf, asked, n)
  /\ k.life = "open" => k.hdr = IF k.pending > 0 \/ doing THEN n + 1 ELSE n
  /\ k.life = "open" /\ doing =>
       k.pending = 0 /\ k.hdr \in DOMAIN asked /\ asked[k.hdr].type = "command"

RepliesInv ==
  \A c \in Clients : \E n \in 0..Len(sock[c].asked) :
    RepliesOf(client[c], sock[c].got, sock[c].asked, executing = c, n)

\* A client that is disconnected keeps the replies that have been written.
LEMMA RepliesGone ==
  ASSUME NEW k \in GoodRec, NEW k2, k2.life # "open", k2.buf = <<>>, NEW got \in Seq(OutCell),
         NEW asked \in Seq(Requests), NEW n \in 0..Len(asked),
         Replied(got \o k.buf, asked, n), NEW doing
  PROVE  \E h \in 0..Len(asked) : RepliesOf(k2, got, asked, doing, h)
<1>1. PICK b, u : b = k.buf /\ u = got \o b
  OBVIOUS
<1>2. b \in Seq(OutCell) /\ Replied(u, asked, n) /\ n \in Nat /\ Len(asked) \in Nat
  BY <1>1, LenProperties DEF GoodRec, ClientRec
<1>3. PICK h \in 0..n : Replied(got, asked, h)
  BY <1>1, <1>2, RepliedCut
<1>4. h \in 0..Len(asked)
  BY <1>2
<1>5. got \o <<>> = got
  BY ConcatEmptySeq
<1>6. RepliesOf(k2, got, asked, doing, h)
  BY <1>3, <1>4, <1>5 DEF RepliesOf
<1>7. QED BY <1>4, <1>6

\* A request is read: it is answered, or its payload is awaited, or it is a
\* command and its execution begins.
LEMMA RepliesRead ==
  ASSUME IInv, LifeInv, NEW d \in Clients, SyncRec(client[d], sock[d]),
         ReadHeader(d) \/ ReadPayload(d), Next,
         NEW m \in 0..Len(sock[d].asked),
         RepliesOf(client[d], sock[d].got, sock[d].asked, executing = d, m)
  PROVE  \E h \in 0..Len(sock[d].asked) :
           RepliesOf(client'[d], sock[d].got, sock[d].asked, executing' = d, h)
<1> DEFINE asked == sock[d].asked
           got == sock[d].got
<1>0. /\ client \in [Clients -> ClientRec] /\ client \in [Clients -> GoodRec]
      /\ client[d] \in ClientRec /\ client[d] \in GoodRec
      /\ asked \in Seq(Requests) /\ got \in Seq(OutCell) /\ m \in Nat /\ nev + 1 \in Nat
      /\ client[d].pending \in Nat /\ client[d].hdr \in Nat
      /\ d # NoClient /\ Len(asked) \in Nat /\ DOMAIN asked = 1..Len(asked)
  <2>1. /\ client \in [Clients -> ClientRec] /\ client \in [Clients -> GoodRec]
        /\ sock[d] \in SockRec /\ nev \in Nat
    BY DEF IInv, TypeOK
  <2>2. client[d] \in ClientRec /\ asked \in Seq(Requests) /\ got \in Seq(OutCell)
    BY <2>1 DEF SockRec
  <2>3. QED BY <2>1, <2>2, ClientsAssumption, LenProperties DEF ClientRec
<1>1. client[d].life = "open" /\ executing = NoClient /\ LivingRec(client[d])
  BY ReadCases DEF ReadHeader, ReadPayload, Dispatchable, Idle, LifeInv
<1>2. AtRequest(client[d]) = m + 1
  BY <1>0, <1>1 DEF AtRequest, RepliesOf
<1>3. Replied(got \o client[d].buf, asked, m)
  BY DEF RepliesOf
<1>g. LivingRec(client'[d]) /\ client'[d].life \notin {"new", "queued"}
  BY <1>1, ServedStays
<1>h. ASSUME client'[d].life # "open"
      PROVE  \E h \in 0..Len(asked) : RepliesOf(client'[d], got, asked, executing' = d, h)
  <2>1. client'[d].buf = <<>>
    BY <1>g, <1>h DEF LivingRec
  <2>2. PICK k, k2, a, g, doing :
          /\ k = client[d] /\ k2 = client'[d] /\ a = asked /\ g = got
          /\ doing = (executing' = d)
    OBVIOUS
  <2>3. /\ k \in GoodRec /\ k2.life # "open" /\ k2.buf = <<>> /\ g \in Seq(OutCell)
        /\ a \in Seq(Requests) /\ m \in 0..Len(a) /\ Replied(g \o k.buf, a, m)
    BY <1>0, <1>3, <1>h, <2>1, <2>2
  <2>4. \E h \in 0..Len(a) : RepliesOf(k2, g, a, doing, h)
    BY <2>3, RepliesGone
  <2>5. QED BY <2>2, <2>4
<1>4. Disconnect(d) => client'[d].life # "open"
  BY <1>0 DEF Disconnect, ClientsBecome, Disconnected, Fresh
<1>5. ASSUME NEW n \in 1..Len(asked), n = AtRequest(client[d]), HeaderRead(d, n)
      PROVE  RepliesOf(client'[d], got, asked, executing' = d, m)
  <2>1. client'[d] = [client[d] EXCEPT !.pending = asked[n].len, !.ptype = asked[n].type, !.hdr = n]
    BY <1>0, <1>5 DEF HeaderRead
  <2>2. client'[d].pending = asked[n].len /\ client'[d].hdr = n /\ client'[d].buf = client[d].buf
    BY <1>0, <2>1 DEF ClientRec
  <2>3. asked[n].len > 0 /\ executing' # d
    BY <1>0, <1>1, <1>5 DEF HeaderRead
  <2>4. QED BY <1>2, <1>3, <1>5, <2>2, <2>3 DEF RepliesOf
<1>6. ASSUME NEW n \in 1..Len(asked), n = AtRequest(client[d]), NEW len \in Nat, NEW q,
             ClientHandleCommand(d, asked[n].type, n, len, q), client'[d].life = "open"
      PROVE  \E h \in 0..Len(asked) : RepliesOf(client'[d], got, asked, executing' = d, h)
  <2> DEFINE t == asked[n].type
             cs == [client EXCEPT ![d].pending = 0, ![d].ptype = t, ![d].hdr = n]
             arg == IF len = 0 THEN <<>> ELSE sock[d].asked[q[1].n].arg
  <2>0. t \in RequestTypes /\ t \in RequestTypes \cup {"none"} /\ n \in Nat /\ n = m + 1
        /\ n \in 0..Len(asked) /\ m \in 0..Len(asked)
    <3>1. asked[n] \in Requests
      BY <1>0, ElementOfSeq
    <3>2. QED BY SMTT(30), <1>0, <1>2, <1>6, <3>1, RequestsAssumption DEF Request
  <2>1. Handled(cs, d, t, n, arg)
    BY <1>6 DEF ClientHandleCommand, Handled
  <2>2. client'[d].pending = 0 /\ client'[d].hdr = n
    BY <1>0, <1>1, <1>6, <2>0, HandledRec
  <2>3. cs \in [Clients -> ClientRec] /\ \A x \in Clients \ {d} : cs[x] = client[x]
        /\ cs[d] = [client[d] EXCEPT !.pending = 0, !.ptype = t, !.hdr = n]
    <3>1. [client[d] EXCEPT !.pending = 0, !.ptype = t, !.hdr = n] \in ClientRec
      BY <1>0, <2>0 DEF ClientRec
    <3>2. QED BY <1>0, <3>1
  <2>4. PICK R0, R1 : R0 = Numbered(got, asked, m) /\ R1 = Numbered(got, asked, m + 1)
    OBVIOUS
  <2>5. KeptWhenRead(R0) /\ KeptWhenMasked(R0)
    BY <2>4, NumberedEdited
  <2>6. client[d] \in R0
    BY <1>0, <1>1, <1>3, <2>4 DEF Numbered
  <2>7. cs[d] \in R0 /\ cs[d].life = "open"
    <3>1. 0 \in Nat
      OBVIOUS
    <3>2. [client[d] EXCEPT !.pending = 0, !.ptype = t, !.hdr = n] \in R0
      BY <1>1, <2>0, <2>5, <2>6, <3>1 DEF KeptWhenRead
    <3>3. [client[d] EXCEPT !.pending = 0, !.ptype = t, !.hdr = n].life = "open"
      BY <1>0, <1>1 DEF ClientRec
    <3>4. QED BY <2>3, <3>2, <3>3
  <2>8. \A subs \in SUBSET Bits : [cs[d] EXCEPT !.subs = subs] \in R0
    BY <2>5, <2>7 DEF KeptWhenMasked
  <2>9. \A k \in R0, payload \in Nat, oom \in BOOLEAN :
          SendReply(k, Event("tick", nev + 1), payload, oom) \in R0
    <3>1. Event("tick", nev + 1) \in Message /\ Event("tick", nev + 1).kind # "reply"
      BY <1>0, MessageTypes DEF Event, Events, EventNo
    <3> HIDE DEF got, asked
    <3>2. QED BY <1>0, <2>4, <3>1, NumberedTold
  <2>10. \A k \in R0, ok \in BOOLEAN, payload \in Nat, oom \in BOOLEAN :
           SendReply(k, Reply(t, ok, n), payload, oom) \in R1
    <3>1. \A ok \in BOOLEAN : /\ Reply(t, ok, n) \in Message
                              /\ Reply(t, ok, n).kind = "reply" /\ Reply(t, ok, n).n = m + 1
                              /\ Reply(t, ok, n).type = asked[m + 1].type
      BY <2>0, MessageTypes DEF Reply
    <3> HIDE DEF got, asked, t
    <3>2. QED BY <1>0, <2>4, <3>1, NumberedTold
  <2>11. \A k \in R1, payload \in Nat, oom \in BOOLEAN :
           SendReply(k, FirstTick(n), payload, oom) \in R1
    <3>1. FirstTick(n) \in Message /\ FirstTick(n).kind # "reply" /\ m + 1 \in Nat
      BY <1>0, <2>0, MessageTypes DEF FirstTick
    <3> HIDE DEF got, asked
    <3>2. QED BY <1>0, <2>4, <3>1, NumberedTold
  <2> HIDE DEF cs, arg, t
  <2>12. client'[d] \in IF t = "command" THEN R0 ELSE R1
    BY <2>0, <2>1, <2>3, <2>7, <2>8, <2>9, <2>10, <2>11, HandledTells
  <2>13. executing' = IF t = "command" THEN d ELSE NoClient
    BY <1>1, <2>1, <2>3, HandledOthers
  <2>14. CASE t = "command"
    <3>1. Replied(got \o client'[d].buf, asked, m)
      BY <1>6, <2>4, <2>12, <2>14 DEF Numbered
    <3>2. executing' = d
      BY <2>13, <2>14
    <3>3. n \in DOMAIN asked /\ asked[n].type = "command"
      BY <1>0, <2>14 DEF t
    <3>4. RepliesOf(client'[d], got, asked, executing' = d, m)
      BY <2>0, <2>2, <3>1, <3>2, <3>3 DEF RepliesOf
    <3>5. QED BY <2>0, <3>4
  <2>15. CASE t # "command"
    <3>1. Replied(got \o client'[d].buf, asked, n)
      BY <1>6, <2>0, <2>4, <2>12, <2>15 DEF Numbered
    <3>2. executing' # d
      BY <1>0, <2>13, <2>15
    <3>3. RepliesOf(client'[d], got, asked, executing' = d, n)
      BY <2>0, <2>2, <3>1, <3>2 DEF RepliesOf
    <3>4. QED BY <2>0, <3>3
  <2>16. QED BY <2>14, <2>15
<1>7. QED
  <2>0. m \in 0..Len(asked)
    OBVIOUS
  <2> HIDE DEF asked, got
  <2>1. \/ Disconnect(d)
        \/ \E n \in 1..Len(asked) :
             /\ n = AtRequest(client[d])
             /\ \/ HeaderRead(d, n)
                \/ \E len \in Nat : \E q :
                     ClientHandleCommand(d, asked[n].type, n, len, q)
    BY ReadsNext DEF asked
  <2> DEFINE Done == \E h \in 0..Len(asked) :
                       RepliesOf(client'[d], got, asked, executing' = d, h)
  <2>2. client'[d].life # "open" => Done
    BY <1>h
  <2>3. Disconnect(d) => Done
    BY <1>4, <2>2
  <2>4. ASSUME NEW n \in 1..Len(asked), n = AtRequest(client[d]), HeaderRead(d, n)
        PROVE  Done
    BY <1>5, <2>0, <2>4
  <2>5. ASSUME NEW n \in 1..Len(asked), n = AtRequest(client[d]), NEW len \in Nat, NEW q,
               ClientHandleCommand(d, asked[n].type, n, len, q), client'[d].life = "open"
        PROVE  Done
    BY <1>6, <2>5
  <2> HIDE DEF Done
  <2>6. Done
    BY <2>1, <2>2, <2>3, <2>4, <2>5, Zenon
  <2>7. QED BY <2>6 DEF Done, asked, got

LEMMA RepliesInit == Init => RepliesInv
<1> SUFFICES ASSUME Init, NEW c \in Clients
             PROVE  \E n \in 0..Len(sock[c].asked) :
                      RepliesOf(client[c], sock[c].got, sock[c].asked, executing = c, n)
  BY DEF RepliesInv
<1>1. /\ sock[c].got = <<>> /\ sock[c].asked = <<>> /\ client[c] = Fresh("new")
      /\ <<>> \o <<>> = <<>> /\ Len(<<>>) = 0 /\ 0 \in 0..0
  BY DEF Init
<1>2. Replied(<<>>, <<>>, 0)
  BY DEF Replied, Heads
<1>3. RepliesOf(Fresh("new"), <<>>, <<>>, executing = c, 0)
  BY <1>1, <1>2 DEF RepliesOf, Fresh
<1>4. QED BY <1>1, <1>3

LEMMA RepliesStep ==
  ASSUME IInv, LifeInv, SyncInv, RepliesInv, [Next]_vars
  PROVE  RepliesInv'
<1>0. /\ client \in [Clients -> ClientRec] /\ client \in [Clients -> GoodRec]
      /\ sock \in [Clients -> SockRec]
      /\ \A d \in Clients : /\ sock[d] \in SockRec /\ client[d] \in ClientRec
                            /\ sock[d].got \in Seq(OutCell) /\ sock[d].asked \in Seq(Requests)
                            /\ d # NoClient
  <2>1. /\ client \in [Clients -> ClientRec] /\ client \in [Clients -> GoodRec]
        /\ sock \in [Clients -> SockRec]
    BY DEF IInv, TypeOK
  <2>2. QED BY <2>1, ClientsAssumption DEF SockRec
<1>1. CASE UNCHANGED vars
  BY <1>1 DEF vars, RepliesInv
<1>2. CASE Next
  <2> DEFINE Kept(d) == \E n \in 0..Len(sock'[d].asked) :
               RepliesOf(client'[d], sock'[d].got, sock'[d].asked, executing' = d, n)
  <2> SUFFICES ASSUME NEW d \in Clients PROVE Kept(d)
    BY DEF RepliesInv
  <2>0. PICK m \in 0..Len(sock[d].asked) :
          RepliesOf(client[d], sock[d].got, sock[d].asked, executing = d, m)
    BY DEF RepliesInv
  <2>n. /\ m \in Nat /\ Len(sock[d].asked) \in Nat
        /\ Replied(sock[d].got \o client[d].buf, sock[d].asked, m)
    BY <1>0, <2>0, LenProperties DEF RepliesOf
  <2>1. CASE ~ClientHandleWritable(d) /\ PeerSend(d)
    <3>1. PICK r \in Requests :
            sock' = [sock EXCEPT ![d].asked = Append(@, r),
                                 ![d].wire = Bytes(Len(sock[d].asked) + 1, r)]
      BY <2>1 DEF PeerSend
    <3>2. client' = client /\ executing' = executing
      BY <2>1 DEF PeerSend
    <3>3. PICK asked, a2 : asked = sock[d].asked /\ a2 = Append(asked, r)
      OBVIOUS
    <3>4. sock'[d].asked = a2 /\ sock'[d].got = sock[d].got
      BY <1>0, <3>1, <3>3 DEF SockRec
    <3>5. /\ asked \in Seq(Requests) /\ m \in 0..Len(asked) /\ Len(a2) = Len(asked) + 1
          /\ DOMAIN asked = 1..Len(asked) /\ DOMAIN a2 = 1..Len(a2)
          /\ \A i \in 1..Len(asked) : a2[i] = asked[i]
      BY <1>0, <3>3, AppendProperties, LenProperties
    <3>6. m \in 0..Len(a2) /\ DOMAIN asked \subseteq DOMAIN a2
      BY <2>n, <3>3, <3>5
    <3>7. Replied(sock[d].got \o client[d].buf, a2, m)
      BY <2>n, <3>3, <3>5, RepliedAsked
    <3>8. RepliesOf(client[d], sock[d].got, a2, executing = d, m)
      BY <2>0, <3>3, <3>5, <3>6, <3>7 DEF RepliesOf
    <3>9. QED BY <3>2, <3>4, <3>6, <3>8
  <2>2. CASE ~ClientHandleWritable(d) /\ ~PeerSend(d) /\ client[d].life \in {"new", "queued"}
    <3>1. sock'[d].got = <<>> /\ client[d].buf = <<>> /\ <<>> \o <<>> = <<>>
          /\ client[d] = Fresh(client[d].life)
      BY <1>2, <2>2, PendingStep DEF LifeInv, LivingRec
    <3>2. client'[d] = client[d] \/ client'[d] \in {Fresh("queued"), Fresh("open"), Fresh("gone")}
      BY <1>2, <2>2, PendingStep
    <3>3. client'[d].buf = <<>> /\ client'[d].hdr = 0 /\ client'[d].pending = 0
      BY <3>1, <3>2 DEF Fresh
    <3>4. client'[d].life = "open" => executing' # d
      <4>1. ASSUME client'[d].life = "open" PROVE executing' # d
        <5>1. ~ReadHeader(d) /\ ~ReadPayload(d)
          BY <2>2 DEF ReadHeader, ReadPayload, Dispatchable
        <5>2. executing # d
          BY <1>0, <2>2 DEF LifeInv
        <5>3. QED BY <1>2, <4>1, <5>1, <5>2, ExecutingStays
      <4>2. QED BY <4>1
    <3>5. Replied(<<>>, sock'[d].asked, 0)
      BY DEF Replied, Heads
    <3>6. 0 \in 0..Len(sock'[d].asked)
      <4>1. sock'[d].asked = sock[d].asked
        BY <1>2, <2>2, AskedStays
      <4>2. QED BY <2>n, <4>1
    <3>7. RepliesOf(client'[d], sock'[d].got, sock'[d].asked, executing' = d, 0)
      BY <3>1, <3>3, <3>4, <3>5, <3>6 DEF RepliesOf
    <3>8. QED BY <3>6, <3>7
  <2>3. CASE ClientHandleWritable(d)
    <3>1. executing' = executing
      BY <2>3 DEF ClientHandleWritable
    <3>2. /\ sock'[d].got \o client'[d].buf = sock[d].got \o client[d].buf
          /\ sock'[d].asked = sock[d].asked
          /\ client[d].life = "open" /\ client'[d].life = "open"
          /\ client'[d].pending = client[d].pending /\ client'[d].hdr = client[d].hdr
      BY <2>3, WriteStep DEF Out
    <3>3. RepliesOf(client'[d], sock'[d].got, sock'[d].asked, executing' = d, m)
      BY <2>0, <3>1, <3>2 DEF RepliesOf
    <3>4. QED BY <3>2, <3>3
  <2>4. CASE ~ClientHandleWritable(d) /\ ~PeerSend(d) /\ (ReadHeader(d) \/ ReadPayload(d))
    <3>1. sock'[d].got = sock[d].got /\ sock'[d].asked = sock[d].asked
      BY <1>2, <2>4, GotStays, AskedStays
    <3>2. client[d].life = "open" /\ SyncRec(client[d], sock[d])
      BY <2>4, ReadCases DEF SyncInv
    <3>3. \E h \in 0..Len(sock[d].asked) :
            RepliesOf(client'[d], sock[d].got, sock[d].asked, executing' = d, h)
      BY <1>2, <2>0, <2>4, <3>2, RepliesRead
    <3>4. QED BY <3>1, <3>3
  <2>5. CASE /\ ~ClientHandleWritable(d) /\ ~PeerSend(d) /\ ~ReadHeader(d) /\ ~ReadPayload(d)
             /\ client[d].life \notin {"new", "queued"}
    <3> DEFINE got == sock[d].got
               asked == sock[d].asked
    <3>1. sock'[d].got = got /\ sock'[d].asked = asked
      BY <1>2, <2>5, GotStays, AskedStays
    <3>2. LivingRec(client'[d]) /\ client'[d].life \notin {"new", "queued"}
          /\ LivingRec(client[d])
      BY <1>2, <2>5, ServedStays DEF LifeInv
    <3>3. CASE client'[d].life # "open"
      <4>1. PICK k, k2, a, g, doing :
              /\ k = client[d] /\ k2 = client'[d] /\ a = asked /\ g = got
              /\ doing = (executing' = d)
        OBVIOUS
      <4>2. /\ k \in GoodRec /\ k2.life # "open" /\ k2.buf = <<>> /\ g \in Seq(OutCell)
            /\ a \in Seq(Requests) /\ m \in 0..Len(a) /\ Replied(g \o k.buf, a, m)
        BY <1>0, <2>n, <3>2, <3>3, <4>1 DEF LivingRec
      <4>3. \E h \in 0..Len(a) : RepliesOf(k2, g, a, doing, h)
        BY <4>2, RepliesGone
      <4>4. QED BY <3>1, <4>1, <4>3
    <3>4. CASE client'[d].life = "open" /\ CommandDone /\ executing = d
      <4>1. PICK payload \in PayloadLens, oom \in SUBSET MayFail :
              client' = [client EXCEPT
                ![executing] = SendReply(@, Reply("command", TRUE, @.hdr), payload,
                                         executing \in oom)]
        BY <3>4 DEF CommandDone, ClientsBecome
      <4>2. client'[d] = SendReply(client[d], Reply("command", TRUE, client[d].hdr), payload, d \in oom)
        BY <1>0, <3>4, <4>1
      <4>3. client[d].life = "open"
        BY <3>4, <4>2 DEF SendReply
      <4>4. /\ client[d].hdr = m + 1 /\ client[d].hdr \in DOMAIN asked
            /\ asked[client[d].hdr].type = "command" /\ client[d].pending = 0
        BY <2>0, <3>4, <4>3 DEF RepliesOf
      <4>5. payload \in Nat /\ (d \in oom) \in BOOLEAN
        BY SizesNat
      <4>6. PICK r : r = Reply("command", TRUE, client[d].hdr)
        OBVIOUS
      <4>7. r \in Message /\ r.kind = "reply" /\ r.n = m + 1 /\ r.type = asked[m + 1].type
        <5>1. client[d].hdr \in Nat
          BY <2>n, <4>4
        <5>2. QED BY <4>4, <4>6, <5>1, MessageTypes DEF Reply, RequestTypes
      <4>8. client[d] \in Numbered(got, asked, m)
        BY <1>0, <2>n, <3>2 DEF Numbered
      <4>9. client'[d] \in Numbered(got, asked, m + 1)
        <5> HIDE DEF got, asked
        <5>1. got \in Seq(OutCell)
          BY <1>0 DEF got
        <5>2. SendReply(client[d], r, payload, d \in oom) \in Numbered(got, asked, m + 1)
          BY <2>n, <4>5, <4>7, <4>8, <5>1, NumberedTold
        <5>3. QED BY <4>2, <4>6, <5>2
      <4>10. Replied(got \o client'[d].buf, asked, m + 1)
        BY <3>4, <4>9 DEF Numbered
      <4>11. client'[d].hdr = client[d].hdr /\ client'[d].pending = client[d].pending
        BY <1>2, <2>5, <3>4, HdrStays
      <4>12. executing' # d /\ m + 1 \in 0..Len(asked)
        <5>1. DOMAIN asked = 1..Len(asked)
          BY <1>0, LenProperties
        <5>2. executing' = NoClient
          BY <3>4 DEF CommandDone
        <5>3. QED BY <1>0, <2>n, <4>4, <5>1, <5>2
      <4>13. RepliesOf(client'[d], got, asked, executing' = d, m + 1)
        BY <4>4, <4>10, <4>11, <4>12 DEF RepliesOf
      <4>14. QED BY <3>1, <4>12, <4>13
    <3>5. CASE client'[d].life = "open" /\ ~(CommandDone /\ executing = d)
      <4>1. client'[d].hdr = client[d].hdr /\ client'[d].pending = client[d].pending
        BY <1>2, <2>5, <3>5, HdrStays
      <4>2. executing' = d <=> executing = d
        BY <1>2, <2>5, <3>5, ExecutingStays
      <4>3. client[d] \in Numbered(got, asked, m)
        BY <1>0, <2>n, <3>2 DEF Numbered
      <4>4. client'[d] \in Numbered(got, asked, m)
        <5>1. CASE client'[d] = client[d]
          BY <4>3, <5>1
        <5>2. CASE client'[d] = Fresh("gone")
          BY <3>5, <5>2 DEF Fresh
        <5>3. CASE EventSent(d)
          <6>1. PICK e \in Events, payload \in Nat, oom \in BOOLEAN :
                  client'[d] = SendReply(client[d], Event(e, nev + 1), payload, oom)
            BY <5>3 DEF EventSent
          <6>2. PICK r : r = Event(e, nev + 1)
            OBVIOUS
          <6>3. r \in Message /\ r.kind # "reply"
            <7>1. nev + 1 \in Nat
              BY DEF IInv, TypeOK
            <7>2. QED BY <6>2, <7>1, MessageTypes DEF Event
          <6>4. got \in Seq(OutCell)
            BY <1>0
          <6> HIDE DEF got, asked
          <6>5. SendReply(client[d], r, payload, oom) \in Numbered(got, asked, m)
            BY <2>n, <4>3, <6>3, <6>4, NumberedTold
          <6>6. QED BY <6>1, <6>2, <6>5
        <5>4. QED BY <1>2, <2>5, <3>5, <5>1, <5>2, <5>3, QuietStep
      <4>5. Replied(got \o client'[d].buf, asked, m)
        BY <3>5, <4>4 DEF Numbered
      <4>6. client[d].life = "open"
        <5>1. client[d].life \in {"gone", "touched"} => client'[d].life # "open"
          BY <1>2, GoneStays
        <5>2. client[d].life \in Lives
          BY <1>0 DEF ClientRec
        <5>3. QED BY <2>5, <3>5, <5>1, <5>2 DEF Lives
      <4>7. RepliesOf(client'[d], got, asked, executing' = d, m)
        BY <2>0, <4>1, <4>2, <4>5, <4>6 DEF RepliesOf
      <4>8. QED BY <3>1, <4>7
    <3>6. QED BY <3>3, <3>4, <3>5
  <2>6. QED BY <2>1, <2>2, <2>3, <2>4, <2>5
<1>3. QED BY <1>1, <1>2

LEMMA RepliesInvariant == Spec => []RepliesInv
<1>1. QED BY RepliesInit, RepliesStep, Invariant, LifeInvariant, SyncInvariant, PTL DEF Spec

\* Whatever is disconnected, delayed or refused, the requests of a peer are
\* answered in their order, each one once and as what it is, and the server
\* is behind by the request it has in hand at most.
THEOREM OneReplyPerRequestHolds == Spec => []OneReplyPerRequest
<1>1. RepliesInv => OneReplyPerRequest
  BY DEF RepliesInv, RepliesOf, OneReplyPerRequest, Out, Busy
<1>2. QED BY <1>1, RepliesInvariant, PTL

-----------------------------------------------------------------------------
(* The messages of a stream.  Whole is a recursive function: f is one that *)
(* says for every prefix of s which messages end in it.                    *)

Scanned(s, f, i) == IF s[i].left = 0 THEN Append(f[i - 1], s[i].msg) ELSE f[i - 1]

Scans(s, f, n) == f[0] = <<>> /\ \A i \in 1..n : f[i] = Scanned(s, f, i)

LEMMA ScanExists ==
  ASSUME NEW s \in Seq(OutCell), NEW n \in 0..Len(s)
  PROVE  \E f \in [0..n -> Seq(Message)] : Scans(s, f, n)
<1> DEFINE Bad == {k \in 0..Len(s) : ~\E f \in [0..k -> Seq(Message)] : Scans(s, f, k)}
<1> SUFFICES ASSUME Bad # {}
             PROVE  FALSE
  OBVIOUS
<1>0. Len(s) \in Nat
  BY LenProperties
<1>1. PICK k \in Bad : \A j \in Bad : k <= j
  <2>1. Bad \subseteq Nat
    BY <1>0
  <2>2. QED BY <2>1, LeastNat
<1>2. k # 0
  <2>1. [i \in 0..0 |-> <<>>] \in [0..0 -> Seq(Message)] /\ Scans(s, [i \in 0..0 |-> <<>>], 0)
    BY EmptySeq DEF Scans
  <2>2. QED BY <1>1, <2>1
<1>3. k \in Nat /\ k - 1 \in 0..Len(s) /\ k \in 1..Len(s)
  BY <1>0, <1>1, <1>2
<1>n. k - 1 \notin Bad
  <2>1. ~(k <= k - 1)
    BY <1>3
  <2> HIDE DEF Bad
  <2>2. QED BY <1>1, <2>1
<1>4. PICK f \in [0..k - 1 -> Seq(Message)] : Scans(s, f, k - 1)
  BY <1>3, <1>n
<1>5. s[k] \in OutCell /\ s[k].msg \in Message
  <2>1. s[k] \in OutCell
    BY <1>3, ElementOfSeq
  <2>2. QED BY <2>1 DEF OutCell
<1> DEFINE g == [i \in 0..k |-> IF i = k THEN Scanned(s, f, k) ELSE f[i]]
<1>6. f \in [0..k - 1 -> Seq(Message)] /\ k - 1 \in 0..k - 1
  BY <1>3, <1>4
<1>7. Scanned(s, f, k) \in Seq(Message)
  BY <1>5, <1>6 DEF Scanned
<1>8. g \in [0..k -> Seq(Message)]
  BY <1>3, <1>6, <1>7
<1>9. ASSUME NEW i \in 1..k
      PROVE  g[i] = Scanned(s, g, i)
  <2>1. g[i - 1] = f[i - 1]
    BY <1>3
  <2>2. CASE i = k
    BY <2>1, <2>2, <1>3 DEF Scanned
  <2>3. CASE i # k
    <3>1. i \in 1..k - 1 /\ g[i] = f[i]
      BY <2>3, <1>3
    <3>2. f[i] = Scanned(s, f, i)
      BY <1>4, <3>1 DEF Scans
    <3>3. QED BY <2>1, <3>1, <3>2 DEF Scanned
  <2>4. QED BY <2>2, <2>3
<1>10. Scans(s, g, k)
  <2>1. g[0] = <<>>
    BY <1>3, <1>4 DEF Scans
  <2> HIDE DEF g
  <2>2. QED BY <2>1, <1>9 DEF Scans
<1>11. QED BY <1>1, <1>8, <1>10

\* Two such functions agree on what their sequences have in common.
LEMMA ScanAgree ==
  ASSUME NEW s, NEW u, NEW n \in Nat, \A i \in 1..n : u[i] = s[i],
         NEW f, NEW g, Scans(s, f, n), Scans(u, g, n)
  PROVE  \A i \in 0..n : f[i] = g[i]
<1> DEFINE Bad == {i \in 0..n : f[i] # g[i]}
<1> SUFFICES ASSUME Bad # {}
             PROVE  FALSE
  OBVIOUS
<1>1. PICK k \in Bad : \A j \in Bad : k <= j
  <2>1. Bad \subseteq Nat
    OBVIOUS
  <2>2. QED BY <2>1, LeastNat
<1>2. k \in 1..n /\ k - 1 \in 0..n
  BY <1>1 DEF Scans
<1>3. f[k - 1] = g[k - 1]
  BY <1>1, <1>2
<1>4. f[k] = Scanned(s, f, k) /\ g[k] = Scanned(u, g, k) /\ u[k] = s[k]
  BY <1>2 DEF Scans
<1>5. QED BY <1>1, <1>3, <1>4 DEF Scanned

LEMMA ScansLess ==
  ASSUME NEW u, NEW k \in Nat, NEW n \in 0..k, NEW g, Scans(u, g, k)
  PROVE  Scans(u, g, n)
BY DEF Scans

LEMMA WholeScans ==
  ASSUME NEW s \in Seq(OutCell)
  PROVE  \E f \in [0..Len(s) -> Seq(Message)] : Scans(s, f, Len(s)) /\ Whole(s) = f[Len(s)]
<1> DEFINE Body(w) == [i \in 0..Len(s) |->
                         IF i = 0 THEN <<>>
                         ELSE IF s[i].left = 0 THEN Append(w[i - 1], s[i].msg)
                         ELSE w[i - 1]]
           whole == CHOOSE w : w = Body(w)
<1>0. Len(s) \in Nat
  BY LenProperties
<1>1. PICK f \in [0..Len(s) -> Seq(Message)] : Scans(s, f, Len(s))
  BY <1>0, ScanExists
<1>2. f = Body(f)
  <2>1. f \in [0..Len(s) -> Seq(Message)]
    BY <1>1
  <2>2. ASSUME NEW i \in 0..Len(s)
        PROVE  f[i] = Body(f)[i]
    <3>1. CASE i = 0
      BY <1>1, <3>1 DEF Scans
    <3>2. CASE i # 0
      <4>1. i \in 1..Len(s)
        BY <1>0, <3>2
      <4>2. f[i] = Scanned(s, f, i)
        BY <1>1, <4>1 DEF Scans
      <4>3. QED BY <3>2, <4>2 DEF Scanned
    <3>3. QED BY <3>1, <3>2
  <2>3. DOMAIN f = 0..Len(s) /\ f = [i \in 0..Len(s) |-> f[i]]
    BY <2>1
  <2>4. QED BY <2>2, <2>3
<1>3. whole = Body(whole)
  BY <1>2
<1>4. Whole(s) = whole[Len(s)]
  BY DEF Whole
<1> HIDE DEF whole
<1>5. Scans(s, whole, Len(s))
  <2>1. ASSUME NEW i \in 0..Len(s)
        PROVE  whole[i] = IF i = 0 THEN <<>> ELSE Scanned(s, whole, i)
    BY <1>3 DEF Scanned
  <2>2. 0 \in 0..Len(s) /\ \A i \in 1..Len(s) : i \in 0..Len(s) /\ i # 0
    BY <1>0
  <2>3. QED BY <2>1, <2>2 DEF Scans
<1>7. \A i \in 0..Len(s) : f[i] = whole[i]
  BY <1>0, <1>1, <1>5, ScanAgree
<1>8. f[Len(s)] = whole[Len(s)]
  BY <1>0, <1>7
<1>9. QED BY <1>1, <1>4, <1>8

LEMMA ScanBegins ==
  ASSUME NEW s \in Seq(OutCell), NEW u \in Seq(OutCell), Len(s) <= Len(u),
         \A i \in 1..Len(s) : u[i] = s[i],
         NEW f, NEW g, Scans(s, f, Len(s)), Scans(u, g, Len(u))
  PROVE  g[Len(s)] = f[Len(s)]
<1>0. PICK n, k : n = Len(s) /\ k = Len(u)
  OBVIOUS
<1>1. n \in Nat /\ k \in Nat /\ n <= k
  BY <1>0, LenProperties
<1>2. Scans(s, f, n) /\ Scans(u, g, k) /\ \A i \in 1..n : u[i] = s[i]
  BY <1>0
<1>3. Scans(u, g, n)
  BY <1>1, <1>2, ScansLess
<1>4. \A i \in 0..n : f[i] = g[i]
  BY <1>1, <1>2, <1>3, ScanAgree
<1>5. QED BY <1>0, <1>1, <1>4

LEMMA WholeEmpty == Whole(<<>>) = <<>>
<1>1. <<>> \in Seq(OutCell) /\ Len(<<>>) = 0
  BY EmptySeq
<1>2. PICK f \in [0..0 -> Seq(Message)] : Scans(<<>>, f, 0) /\ Whole(<<>>) = f[0]
  BY <1>1, WholeScans
<1>3. QED BY <1>2 DEF Scans

LEMMA WholeType ==
  ASSUME NEW s \in Seq(OutCell)
  PROVE  Whole(s) \in Seq(Message) /\ Len(Whole(s)) \in Nat
<1>1. PICK f \in [0..Len(s) -> Seq(Message)] : Scans(s, f, Len(s)) /\ Whole(s) = f[Len(s)]
  BY WholeScans
<1>2. Len(s) \in 0..Len(s)
  BY LenProperties
<1>3. Whole(s) \in Seq(Message)
  BY <1>1, <1>2
<1>4. QED BY <1>3, LenProperties

\* The cells of a message that is queued.
LEMMA SentCells ==
  ASSUME NEW s \in Seq(OutCell), NEW u, NEW m \in Message, Sent(s, u, m)
  PROVE  /\ u \in Seq(OutCell) /\ Len(s) \in Nat /\ Len(u) \in Nat /\ Len(u) > Len(s)
         /\ \A i \in 1..Len(s) : u[i] = s[i]
         /\ \A i \in Len(s) + 1..Len(u) :
              u[i].msg = m /\ u[i].left = Len(u) - i /\ u[i].at = i - Len(s)
         /\ Len(u) - Len(s) >= HeaderSize
<1>p. PICK payload \in Nat : u = s \o Frame(m, payload)
  BY DEF Sent
<1>0. PICK n, f : n = HeaderSize + payload /\ f = Frame(m, payload)
  OBVIOUS
<1>1. n \in Nat /\ n > 0 /\ f \in Seq(OutCell) /\ Len(f) = n /\ Len(s) \in Nat
  BY <1>0, SizesNat, FrameType, LenProperties
<1>2. ASSUME NEW i \in 1..n PROVE f[i].msg = m /\ f[i].left = n - i /\ f[i].at = i
  <2>1. i \in 1..HeaderSize + payload
    BY <1>0
  <2>2. Frame(m, payload)[i] = [msg |-> m, at |-> i, left |-> HeaderSize + payload - i]
    BY <2>1, Zenon DEF Frame
  <2>3. QED BY <1>0, <2>2, SizesNat
<1>3. /\ u \in Seq(OutCell) /\ Len(u) = Len(s) + n
      /\ \A i \in 1..Len(s) + n : u[i] = IF i <= Len(s) THEN s[i] ELSE f[i - Len(s)]
  <2>1. u = s \o f
    BY <1>p, <1>0
  <2>2. u \in Seq(OutCell) /\ Len(u) = Len(s) + Len(f)
        /\ \A i \in 1..Len(s) + Len(f) : u[i] = IF i <= Len(s) THEN s[i] ELSE f[i - Len(s)]
    BY <1>1, <2>1, ConcatProperties
  <2>3. QED BY <1>1, <2>2
<1>4. \A i \in 1..Len(s) : u[i] = s[i]
  BY <1>1, <1>3
<1>5. ASSUME NEW i \in Len(s) + 1..Len(u)
      PROVE  u[i].msg = m /\ u[i].left = Len(u) - i /\ u[i].at = i - Len(s)
  <2>1. i - Len(s) \in 1..n /\ ~(i <= Len(s)) /\ i \in 1..Len(s) + n /\ n - (i - Len(s)) = Len(u) - i
    BY <1>1, <1>3
  <2>2. u[i] = f[i - Len(s)]
    BY <1>3, <2>1
  <2>3. QED BY <1>2, <2>1, <2>2
<1>6. Len(u) - Len(s) >= HeaderSize
  BY <1>0, <1>1, <1>3, SizesNat
<1>7. QED BY <1>1, <1>3, <1>4, <1>5, <1>6

\* A message is in the log once its last byte is in the stream.
LEMMA WholeSent ==
  ASSUME NEW s \in Seq(OutCell), NEW u, NEW m \in Message, Sent(s, u, m)
  PROVE  Whole(u) = Append(Whole(s), m)
<1>1. /\ u \in Seq(OutCell) /\ Len(s) \in Nat /\ Len(u) \in Nat /\ Len(u) > Len(s)
      /\ \A i \in 1..Len(s) : u[i] = s[i]
      /\ \A i \in Len(s) + 1..Len(u) : u[i].msg = m /\ u[i].left = Len(u) - i
  BY SentCells
<1>2. PICK f \in [0..Len(s) -> Seq(Message)] : Scans(s, f, Len(s)) /\ Whole(s) = f[Len(s)]
  BY WholeScans
<1>3. PICK g \in [0..Len(u) -> Seq(Message)] : Scans(u, g, Len(u)) /\ Whole(u) = g[Len(u)]
  BY <1>1, WholeScans
<1>4. /\ f[0] = <<>> /\ \A i \in 1..Len(s) : f[i] = Scanned(s, f, i)
      /\ g[0] = <<>> /\ \A i \in 1..Len(u) : g[i] = Scanned(u, g, i)
  BY <1>2, <1>3 DEF Scans
<1>5. g[Len(s)] = f[Len(s)]
  <2>1. Len(s) <= Len(u) /\ u \in Seq(OutCell) /\ \A i \in 1..Len(s) : u[i] = s[i]
    BY <1>1
  <2>2. QED BY <1>2, <1>3, <2>1, ScanBegins
<1>6. \A i \in Len(s)..Len(u) - 1 : g[i] = f[Len(s)]
  <2> DEFINE Bad == {i \in Len(s)..Len(u) - 1 : g[i] # f[Len(s)]}
  <2> SUFFICES ASSUME Bad # {}
               PROVE  FALSE
    OBVIOUS
  <2>1. PICK k \in Bad : \A j \in Bad : k <= j
    <3>1. Bad \subseteq Nat
      BY <1>1
    <3>2. QED BY <3>1, LeastNat
  <2>2. k # Len(s)
    BY <1>5, <2>1
  <2>3. k - 1 \in Len(s)..Len(u) - 1 /\ k \in 1..Len(u) /\ k \in Len(s) + 1..Len(u)
        /\ ~(k <= k - 1) /\ Len(u) - k # 0
    BY <1>1, <2>1, <2>2
  <2>4. g[k - 1] = f[Len(s)]
    BY <2>1, <2>3
  <2>5. g[k] = g[k - 1]
    BY <1>1, <1>4, <2>3 DEF Scanned
  <2>6. QED BY <2>1, <2>4, <2>5
<1>7. Len(u) \in 1..Len(u) /\ Len(u) \in Len(s) + 1..Len(u) /\ Len(u) - Len(u) = 0
      /\ Len(u) - 1 \in Len(s)..Len(u) - 1
  BY <1>1
<1>8. g[Len(u)] = Append(g[Len(u) - 1], m)
  BY <1>1, <1>4, <1>7 DEF Scanned
<1>9. QED BY <1>2, <1>3, <1>6, <1>7, <1>8

\* What has been written of a stream is the beginning of its log.
LEMMA WholeLonger ==
  ASSUME NEW s \in Seq(OutCell), NEW u \in Seq(OutCell), Len(s) <= Len(u),
         \A i \in 1..Len(s) : u[i] = s[i]
  PROVE  /\ Len(Whole(s)) <= Len(Whole(u))
         /\ SubSeq(Whole(u), 1, Len(Whole(s))) = Whole(s)
<1> DEFINE Opens(a, b) == /\ Len(a) <= Len(b)
                          /\ \A j \in 1..Len(a) : b[j] = a[j]
<1>1. Len(s) \in Nat /\ Len(u) \in Nat
  BY LenProperties
<1>2. PICK f \in [0..Len(s) -> Seq(Message)] : Scans(s, f, Len(s)) /\ Whole(s) = f[Len(s)]
  BY WholeScans
<1>3. PICK g \in [0..Len(u) -> Seq(Message)] : Scans(u, g, Len(u)) /\ Whole(u) = g[Len(u)]
  BY <1>1, WholeScans
<1>4. /\ f[0] = <<>> /\ \A i \in 1..Len(s) : f[i] = Scanned(s, f, i)
      /\ g[0] = <<>> /\ \A i \in 1..Len(u) : g[i] = Scanned(u, g, i)
      /\ g \in [0..Len(u) -> Seq(Message)]
  BY <1>2, <1>3 DEF Scans
<1>5. g[Len(s)] = f[Len(s)]
  BY <1>1, <1>2, <1>3, ScanBegins
<1> DEFINE w == Whole(s)
<1>w. w \in Seq(Message) /\ Len(w) \in Nat /\ w = f[Len(s)]
  BY <1>2, WholeType
<1> HIDE DEF w
<1>6. \A i \in Len(s)..Len(u) : Opens(w, g[i])
  <2> DEFINE Bad == {i \in Len(s)..Len(u) : ~Opens(w, g[i])}
  <2> SUFFICES ASSUME Bad # {}
               PROVE  FALSE
    OBVIOUS
  <2>1. PICK k \in Bad : \A j \in Bad : k <= j
    <3>1. Bad \subseteq Nat
      BY <1>1
    <3>2. QED BY <3>1, LeastNat
  <2>2. k # Len(s)
    BY <1>5, <1>w, <2>1
  <2>3. k - 1 \in Len(s)..Len(u) /\ k \in 1..Len(u) /\ k - 1 \in 0..Len(u) /\ ~(k <= k - 1)
    BY <1>1, <2>1, <2>2
  <2>4. Opens(w, g[k - 1]) /\ g[k - 1] \in Seq(Message)
    BY <1>4, <2>1, <2>3
  <2>5. u[k].msg \in Message
    <3>1. u[k] \in OutCell
      BY <1>1, <2>3, ElementOfSeq
    <3>2. QED BY <3>1 DEF OutCell
  <2>6. \/ g[k] = g[k - 1]
        \/ g[k] = Append(g[k - 1], u[k].msg)
    BY <1>4, <2>3 DEF Scanned
  <2>7. PICK a, b, x : a = g[k - 1] /\ b = g[k] /\ x = u[k].msg
    OBVIOUS
  <2>8. a \in Seq(Message) /\ x \in Message /\ Opens(w, a) /\ (b = a \/ b = Append(a, x))
    BY <2>4, <2>5, <2>6, <2>7
  <2>9. Len(a) \in Nat /\ Len(Append(a, x)) = Len(a) + 1
        /\ \A j \in 1..Len(a) : Append(a, x)[j] = a[j]
    BY <2>8, AppendProperties, LenProperties
  <2>10. Opens(w, b)
    <3>1. CASE b = a
      BY <2>8, <3>1
    <3>2. CASE b = Append(a, x)
      <4>1. Len(w) <= Len(b) /\ \A j \in 1..Len(w) : j \in 1..Len(a)
        BY <1>w, <2>8, <2>9, <3>2
      <4>2. QED BY <2>8, <2>9, <3>2, <4>1
    <3>3. QED BY <2>8, <3>1, <3>2
  <2>11. QED BY <2>1, <2>7, <2>10
<1>7. Len(u) \in Len(s)..Len(u) /\ g[Len(u)] \in Seq(Message)
  BY <1>1, <1>4
<1>8. PICK v : v = g[Len(u)]
  OBVIOUS
<1>9. v \in Seq(Message) /\ Len(v) \in Nat /\ Opens(w, v)
  BY <1>6, <1>7, <1>8, LenProperties
<1>10. SubSeq(v, 1, Len(w)) = w
  <2>1. \A i \in 1..Len(w) : v[i] \in Message
    BY <1>9, <1>w, ElementOfSeq
  <2>2. /\ SubSeq(v, 1, Len(w)) \in Seq(Message)
        /\ Len(SubSeq(v, 1, Len(w))) = Len(w)
        /\ \A i \in 1..Len(w) : SubSeq(v, 1, Len(w))[i] = v[i]
    BY <1>9, <1>w, <2>1
  <2>3. QED BY <1>9, <1>w, <2>2, SeqEqual
<1>11. QED BY <1>3, <1>8, <1>9, <1>10 DEF w

LEMMA WholeCut ==
  ASSUME NEW s \in Seq(OutCell), NEW t \in Seq(OutCell), NEW u, u = s \o t
  PROVE  /\ Len(Whole(s)) <= Len(Whole(u))
         /\ SubSeq(Whole(u), 1, Len(Whole(s))) = Whole(s)
<1>1. Len(s) \in Nat /\ Len(t) \in Nat
  BY LenProperties
<1>2. u \in Seq(OutCell) /\ Len(u) = Len(s) + Len(t)
      /\ \A i \in 1..Len(s) + Len(t) : u[i] = IF i <= Len(s) THEN s[i] ELSE t[i - Len(s)]
  BY ConcatProperties
<1>3. Len(s) <= Len(u) /\ \A i \in 1..Len(s) : u[i] = s[i]
  BY <1>1, <1>2
<1>4. QED BY <1>2, <1>3, WholeLonger

-----------------------------------------------------------------------------
(* The first message.  A peer that has not been answered yet has not       *)
(* subscribed to anything, so nothing is sent to it before its reply.      *)

\* No message is shorter than its header.
Headed(s) == \A i \in 1..Len(s) : s[i].at + s[i].left >= HeaderSize
Replying(s) == s # <<>> => s[1].msg.kind = "reply"

FirstRec(got, k) ==
  /\ Headed(got \o k.buf) /\ Replying(got \o k.buf)
  /\ k.life = "open" /\ got \o k.buf = <<>> => k.subs = {}
FirstInv == \A c \in Clients : FirstRec(sock[c].got, client[c])

\* Who has been sent a message.
Begun(got) ==
  {k \in GoodRec : /\ LivingRec(k) /\ Headed(got \o k.buf) /\ Replying(got \o k.buf)
                   /\ k.life = "open" => got \o k.buf # <<>>}

LEMMA FirstSent ==
  ASSUME NEW s \in Seq(OutCell), NEW u, NEW m \in Message, Sent(s, u, m),
         Headed(s), Replying(s), s # <<>> \/ m.kind = "reply"
  PROVE  Headed(u) /\ Replying(u) /\ u # <<>>
<1>1. /\ u \in Seq(OutCell) /\ Len(s) \in Nat /\ Len(u) \in Nat
      /\ Len(u) - Len(s) >= HeaderSize /\ Len(u) > Len(s)
      /\ \A i \in 1..Len(s) : u[i] = s[i]
      /\ \A i \in Len(s) + 1..Len(u) :
           u[i].msg = m /\ u[i].left = Len(u) - i /\ u[i].at = i - Len(s)
  BY SentCells
<1>2. ASSUME NEW i \in 1..Len(u)
      PROVE  u[i].at + u[i].left >= HeaderSize
  <2>1. CASE i <= Len(s)
    <3>1. i \in 1..Len(s)
      BY <1>1, <2>1
    <3>2. QED BY <1>1, <3>1 DEF Headed
  <2>2. CASE ~(i <= Len(s))
    <3>1. PICK a, b : a = Len(s) /\ b = Len(u)
      OBVIOUS
    <3>2. u[i].left = b - i /\ u[i].at = i - a /\ a \in Nat /\ b \in Nat /\ b - a >= HeaderSize
      BY <1>1, <2>2, <3>1
    <3>3. (i - a) + (b - i) >= HeaderSize
      BY <3>2, SizesNat
    <3>4. QED BY <3>2, <3>3
  <2>3. QED BY <2>1, <2>2
<1>3. u # <<>>
  BY <1>1, EmptySeq
<1>4. u[1].msg.kind = "reply"
  <2>1. CASE s = <<>>
    <3>1. Len(s) = 0 /\ 1 \in Len(s) + 1..Len(u)
      BY <1>1, <2>1, EmptySeq
    <3>2. QED BY <1>1, <2>1, <3>1
  <2>2. CASE s # <<>>
    <3>1. 1 \in 1..Len(s)
      BY <1>1, <2>2, EmptySeq
    <3>2. QED BY <1>1, <2>2, <3>1 DEF Replying
  <2>3. QED BY <2>1, <2>2
<1>5. QED BY <1>2, <1>3, <1>4 DEF Headed, Replying

LEMMA FirstCut ==
  ASSUME NEW s \in Seq(OutCell), NEW t \in Seq(OutCell), Headed(s \o t), Replying(s \o t)
  PROVE  Headed(s) /\ Replying(s)
<1>1. PICK u : u = s \o t
  OBVIOUS
<1>2. /\ Len(s) \in Nat /\ Len(t) \in Nat /\ Len(u) = Len(s) + Len(t)
      /\ \A i \in 1..Len(s) + Len(t) : u[i] = IF i <= Len(s) THEN s[i] ELSE t[i - Len(s)]
      /\ u \in Seq(OutCell)
  BY <1>1, ConcatProperties, LenProperties
<1>3. \A i \in 1..Len(s) : i \in 1..Len(u) /\ u[i] = s[i]
  BY <1>2
<1>4. Headed(s)
  BY <1>1, <1>3 DEF Headed
<1>5. ASSUME s # <<>> PROVE s[1].msg.kind = "reply"
  <2>1. 1 \in 1..Len(s)
    BY <1>2, <1>5, EmptySeq
  <2>2. u[1] = s[1] /\ u # <<>>
    BY <1>2, <1>3, <2>1, EmptySeq
  <2>3. QED BY <1>1, <2>2 DEF Replying
<1>6. QED BY <1>4, <1>5 DEF Replying

\* A reply begins the stream, and nothing that follows changes that.
LEMMA FirstTold ==
  ASSUME NEW got \in Seq(OutCell), NEW k \in GoodRec, LivingRec(k),
         Headed(got \o k.buf), Replying(got \o k.buf),
         NEW m \in Message, NEW payload \in Nat, NEW oom \in BOOLEAN,
         got \o k.buf # <<>> \/ k.life # "open" \/ m.kind = "reply"
  PROVE  SendReply(k, m, payload, oom) \in Begun(got)
<1>0. PICK k2 : k2 = SendReply(k, m, payload, oom)
  OBVIOUS
<1>1. /\ k2 \in GoodRec
      /\ \/ k.life # "open" /\ k2.life = "touched" /\ k2.buf = k.buf
         \/ k.life = "open" /\ k2 = Fresh("gone") /\ k2.life = "gone" /\ k2.buf = <<>>
         \/ k.life = "open" /\ k2.life = "open" /\ Longer(k, k2, m, payload)
  BY <1>0, SendReplyCases
<1>2. CASE k.life # "open" /\ k2.life = "touched" /\ k2.buf = k.buf
  BY <1>0, <1>1, <1>2 DEF Begun, LivingRec
<1>3. CASE k.life = "open" /\ k2 = Fresh("gone") /\ k2.life = "gone" /\ k2.buf = <<>>
  <2>1. k.buf \in Seq(OutCell) /\ got \o <<>> = got
    BY ConcatEmptySeq DEF GoodRec, ClientRec
  <2>2. Headed(got) /\ Replying(got)
    BY <2>1, FirstCut
  <2>3. QED BY <1>0, <1>1, <1>3, <2>1, <2>2 DEF Begun, LivingRec
<1>4. CASE k.life = "open" /\ k2.life = "open" /\ Longer(k, k2, m, payload)
  <2>1. PICK s, u : s = got \o k.buf /\ u = got \o k2.buf
    OBVIOUS
  <2>2. Sent(s, u, m) /\ s \in Seq(OutCell)
    BY <1>4, <2>1, LongerSent
  <2>3. Headed(u) /\ Replying(u) /\ u # <<>>
    BY <1>4, <2>1, <2>2, FirstSent
  <2>4. QED BY <1>0, <1>1, <1>4, <2>1, <2>3 DEF Begun, LivingRec
<1>5. QED BY <1>1, <1>2, <1>3, <1>4

LEMMA BegunKept ==
  ASSUME NEW got \in Seq(OutCell), Headed(got), Replying(got), NEW R, R = Begun(got)
  PROVE  Fresh("gone") \in R /\ KeptWhenTold(R) /\ KeptWhenRead(R) /\ KeptWhenMasked(R)
<1>1. Fresh("gone") \in R
  <2>1. got \o <<>> = got
    BY ConcatEmptySeq
  <2>2. QED BY <2>1, GoodKept DEF Begun, LivingRec
<1>2. KeptWhenTold(R)
  <2> SUFFICES ASSUME NEW k \in R, NEW m \in Message, NEW payload \in Nat, NEW oom \in BOOLEAN
               PROVE  SendReply(k, m, payload, oom) \in R
    BY Zenon DEF KeptWhenTold
  <2>1. /\ k \in GoodRec /\ LivingRec(k) /\ Headed(got \o k.buf) /\ Replying(got \o k.buf)
        /\ got \o k.buf # <<>> \/ k.life # "open"
    BY DEF Begun
  <2>2. QED BY <2>1, FirstTold
<1>3. KeptWhenRead(R)
  <2> SUFFICES ASSUME NEW k \in R, NEW p \in Nat, NEW t \in RequestTypes \cup {"none"},
                      NEW n \in Nat, k.life = "open"
               PROVE  [k EXCEPT !.pending = p, !.ptype = t, !.hdr = n] \in R
    BY DEF KeptWhenRead
  <2>1. PICK k2 : k2 = [k EXCEPT !.pending = p, !.ptype = t, !.hdr = n]
    OBVIOUS
  <2>2. k2 \in GoodRec /\ k2.life = k.life /\ k2.buf = k.buf
    BY <2>1, GoodKept DEF Begun, GoodRec, ClientRec
  <2>3. QED BY <2>1, <2>2 DEF Begun, LivingRec
<1>4. KeptWhenMasked(R)
  <2> SUFFICES ASSUME NEW k \in R, NEW subs \in SUBSET Bits, k.life = "open"
               PROVE  [k EXCEPT !.subs = subs] \in R
    BY DEF KeptWhenMasked
  <2>1. PICK k2 : k2 = [k EXCEPT !.subs = subs]
    OBVIOUS
  <2>2. k2 \in GoodRec /\ k2.life = k.life /\ k2.buf = k.buf
    BY <2>1, GoodKept DEF Begun, GoodRec, ClientRec
  <2>3. QED BY <2>1, <2>2 DEF Begun, LivingRec
<1>5. QED BY <1>1, <1>2, <1>3, <1>4

LEMMA BegunFirst ==
  ASSUME NEW got, NEW k \in Begun(got)
  PROVE  FirstRec(got, k)
BY DEF Begun, FirstRec

\* Nothing has been sent to the client whose request is handled.
LEMMA FirstHandled ==
  ASSUME IInv, NEW d \in Clients, NEW t \in RequestTypes \cup {"none"}, NEW n \in Nat,
         NEW len \in Nat, NEW q, ClientHandleCommand(d, t, n, len, q),
         client[d].life = "open", client[d].buf = <<>>, client[d].subs = {},
         LivingRec(client[d])
  PROVE  FirstRec(<<>>, client'[d])
<1> DEFINE cs == [client EXCEPT ![d].pending = 0, ![d].ptype = t, ![d].hdr = n]
           arg == IF len = 0 THEN <<>> ELSE sock[d].asked[q[1].n].arg
<1>0. /\ client \in [Clients -> ClientRec] /\ client \in [Clients -> GoodRec]
      /\ nev + 1 \in Nat /\ client[d] \in ClientRec /\ client[d] \in GoodRec
  BY DEF IInv, TypeOK
<1>1. Handled(cs, d, t, n, arg)
  BY DEF ClientHandleCommand, Handled
<1>2. /\ cs \in [Clients -> ClientRec]
      /\ cs[d] = [client[d] EXCEPT !.pending = 0, !.ptype = t, !.hdr = n]
  <2>1. [client[d] EXCEPT !.pending = 0, !.ptype = t, !.hdr = n] \in ClientRec
    BY <1>0 DEF ClientRec
  <2>2. QED BY <1>0, <2>1
<1>3. cs[d] \in GoodRec /\ cs[d].life = "open" /\ cs[d].buf = <<>> /\ cs[d].subs = {}
  <2>1. [client[d] EXCEPT !.pending = 0, !.ptype = t, !.hdr = n] \in GoodRec
    BY <1>0, GoodKept
  <2>2. QED BY <1>0, <1>2, <2>1 DEF ClientRec
<1>4. t \in RequestTypes
  BY <1>1 DEF Handled, RequestTypes
<1>5. PICK R0, R1 :
        /\ R0 = {k \in GoodRec : /\ k.life = "open" /\ k.buf = <<>>
                                 /\ t = "command" => k.subs = {}}
        /\ R1 = Begun(<<>>)
  OBVIOUS
<1>6. [cs[d] EXCEPT !.subs = MaskAfter(cs[d].subs, t, arg)] \in R0
  <2>1. PICK k, S : k = cs[d] /\ S = MaskAfter(cs[d].subs, t, arg)
    OBVIOUS
  <2>2. S \in SUBSET Bits /\ (t = "command" => S = {})
    BY <1>3, <2>1, SubscribedType DEF MaskAfter
  <2>3. PICK k2 : k2 = [k EXCEPT !.subs = S]
    OBVIOUS
  <2>4. k2 \in GoodRec /\ k2.life = "open" /\ k2.buf = <<>> /\ k2.subs = S
    BY <1>3, <2>1, <2>2, <2>3, GoodKept DEF GoodRec, ClientRec
  <2>5. k2 \in R0
    BY <1>5, <2>2, <2>4
  <2>6. [cs[d] EXCEPT !.subs = MaskAfter(cs[d].subs, t, arg)] = k2
    <3> HIDE DEF cs, arg
    <3>1. QED BY <2>1, <2>3
  <2>7. QED BY <2>5, <2>6
<1>7. <<>> \in Seq(OutCell) /\ <<>> \o <<>> = <<>> /\ Headed(<<>>) /\ Replying(<<>>)
  <2>1. Len(<<>>) = 0 /\ <<>> \in Seq(OutCell) /\ <<>> \o <<>> = <<>>
    BY EmptySeq
  <2>2. QED BY <2>1 DEF Headed, Replying
<1>8. \A k \in R0, ok \in BOOLEAN, payload \in Nat, oom \in BOOLEAN :
        SendReply(k, Reply(t, ok, n), payload, oom) \in R1
  <2> SUFFICES ASSUME NEW k \in R0, NEW ok \in BOOLEAN, NEW payload \in Nat, NEW oom \in BOOLEAN
               PROVE  SendReply(k, Reply(t, ok, n), payload, oom) \in R1
    OBVIOUS
  <2>1. PICK m : m = Reply(t, ok, n)
    OBVIOUS
  <2>2. m \in Message /\ m.kind = "reply"
    BY <1>4, <2>1, MessageTypes DEF Reply
  <2>3. k \in GoodRec /\ k.life = "open" /\ k.buf = <<>> /\ LivingRec(k)
    BY <1>5 DEF LivingRec
  <2>4. SendReply(k, m, payload, oom) \in Begun(<<>>)
    BY <1>7, <2>2, <2>3, FirstTold
  <2>5. QED BY <1>5, <2>1, <2>4
<1>9. \A k \in R1, payload \in Nat, oom \in BOOLEAN :
        SendReply(k, FirstTick(n), payload, oom) \in R1
  <2>1. FirstTick(n) \in Message
    BY MessageTypes
  <2>2. KeptWhenTold(R1)
    BY <1>5, <1>7, BegunKept
  <2>3. QED BY <2>1, <2>2 DEF KeptWhenTold
<1>10. EventBit("tick") \in cs[d].subs =>
         \A k \in R0, payload \in Nat, oom \in BOOLEAN :
           SendReply(k, Event("tick", nev + 1), payload, oom) \in R0
  BY <1>3
<1> HIDE DEF cs, arg
<1>11. client'[d] \in IF t = "command" THEN R0 ELSE R1
  BY <1>1, <1>2, <1>6, <1>8, <1>9, <1>10, HandledMasks, Zenon
<1>12. CASE t = "command"
  BY <1>5, <1>7, <1>11, <1>12 DEF FirstRec
<1>13. CASE t # "command"
  BY <1>5, <1>11, <1>13, BegunFirst
<1>14. QED BY <1>12, <1>13

LEMMA FirstInit == Init => FirstInv
<1> SUFFICES ASSUME Init, NEW c \in Clients PROVE FirstRec(sock[c].got, client[c])
  BY DEF FirstInv
<1>1. /\ sock[c].got = <<>> /\ client[c].buf = <<>> /\ client[c].subs = {}
      /\ <<>> \o <<>> = <<>> /\ Len(<<>>) = 0
  BY DEF Init, Fresh
<1>2. Headed(<<>>) /\ Replying(<<>>)
  BY <1>1 DEF Headed, Replying
<1>3. QED BY <1>1, <1>2 DEF FirstRec

LEMMA FirstStep ==
  ASSUME IInv, LifeInv, FirstInv, [Next]_vars
  PROVE  FirstInv'
<1>0. /\ client \in [Clients -> ClientRec] /\ client \in [Clients -> GoodRec]
      /\ \A c \in Clients : /\ sock[c].got \in Seq(OutCell) /\ client[c].buf \in Seq(OutCell)
                            /\ client[c] \in GoodRec
  BY DEF IInv, TypeOK, SockRec, ClientRec
<1>1. CASE UNCHANGED vars
  BY <1>1 DEF vars, FirstInv
<1>2. CASE Next
  <2> SUFFICES ASSUME NEW d \in Clients PROVE FirstRec(sock'[d].got, client'[d])
    BY DEF FirstInv
  <2>0. FirstRec(sock[d].got, client[d]) /\ LivingRec(client[d])
    BY DEF FirstInv, LifeInv
  <2>e. <<>> \o <<>> = <<>> /\ Headed(<<>>) /\ Replying(<<>>) /\ <<>> \in Seq(OutCell)
    <3>1. <<>> \o <<>> = <<>> /\ Len(<<>>) = 0 /\ <<>> \in Seq(OutCell)
      BY EmptySeq
    <3>2. QED BY <3>1 DEF Headed, Replying
  <2>1. CASE ClientHandleWritable(d)
    <3>1. /\ client'[d].subs = client[d].subs /\ client[d].life = "open"
          /\ sock'[d].got \o client'[d].buf = sock[d].got \o client[d].buf
      BY <2>1, WriteStep DEF Out
    <3>2. QED BY <2>0, <3>1 DEF FirstRec
  <2>2. CASE client[d].life \in {"new", "queued"}
    <3>1. sock'[d].got = <<>> /\ client'[d].buf = <<>> /\ client'[d].subs = {}
      <4>1. sock[d].got = <<>> /\ client[d].buf = <<>> /\ client[d].subs = {}
        BY <2>0, <2>2 DEF LifeInv, LivingRec, Fresh
      <4>2. QED BY <1>2, <2>2, <4>1, PendingStep DEF Fresh
    <3>2. QED BY <2>e, <3>1 DEF FirstRec
  <2>3. CASE /\ client[d].life \notin {"new", "queued"} /\ ~ClientHandleWritable(d)
             /\ client[d].life # "open" \/ Out(d) # <<>>
    <3>1. PICK R : R = Begun(sock[d].got)
      OBVIOUS
    <3>2. client[d] \in R
      BY <1>0, <2>0, <2>3, <3>1 DEF Begun, FirstRec, Out
    <3>3. Headed(sock[d].got) /\ Replying(sock[d].got)
      BY <1>0, <2>0, FirstCut DEF FirstRec
    <3>4. Fresh("gone") \in R /\ KeptWhenTold(R) /\ KeptWhenRead(R) /\ KeptWhenMasked(R)
      BY <1>0, <3>1, <3>3, BegunKept
    <3>5. client'[d] \in R
      BY <1>2, <2>3, <3>2, <3>4, ServedStep
    <3>6. sock'[d].got = sock[d].got
      BY <1>2, <2>3, GotStays
    <3>7. QED BY <3>1, <3>5, <3>6, BegunFirst
  <2>4. CASE client[d].life = "open" /\ ~ClientHandleWritable(d) /\ Out(d) = <<>>
    <3>1. sock[d].got = <<>> /\ client[d].buf = <<>> /\ client[d].subs = {}
      <4>1. PICK s, t : s = sock[d].got /\ t = client[d].buf
        OBVIOUS
      <4>2. s \in Seq(OutCell) /\ t \in Seq(OutCell) /\ s \o t = <<>>
        BY <1>0, <2>4, <4>1 DEF Out
      <4>3. Len(s) + Len(t) = 0 /\ Len(s) \in Nat /\ Len(t) \in Nat
        BY <4>2, ConcatProperties, LenProperties, EmptySeq
      <4>4. s = <<>> /\ t = <<>>
        BY <4>2, <4>3, EmptySeq
      <4>5. QED BY <2>0, <2>4, <4>1, <4>2, <4>4 DEF FirstRec
    <3>2. sock'[d].got = <<>>
      BY <1>2, <2>4, <3>1, GotStays
    <3> SUFFICES FirstRec(<<>>, client'[d])
      BY <3>2
    <3>3. CASE client'[d] = Fresh("gone")
      BY <2>e, <3>3 DEF FirstRec, Fresh
    <3>4. CASE /\ client'[d].buf = <<>> /\ client'[d].subs = {}
      BY <2>e, <3>4 DEF FirstRec
    <3>5. CASE ReadHeader(d) \/ ReadPayload(d)
      <4>1. Disconnect(d) => client'[d] = Fresh("gone")
        BY <1>0 DEF Disconnect, ClientsBecome, Disconnected
      <4>2. HeaderKept(d) => client'[d].buf = <<>> /\ client'[d].subs = {}
        BY <1>0, <3>1 DEF HeaderKept, ClientRec
      <4>3. ASSUME NEW t \in RequestTypes \cup {"none"}, NEW n \in Nat, NEW len \in Nat, NEW q,
                   ClientHandleCommand(d, t, n, len, q)
            PROVE  FirstRec(<<>>, client'[d])
        BY <2>0, <2>4, <3>1, <4>3, FirstHandled
      <4>4. RequestHandled(d) => FirstRec(<<>>, client'[d])
        BY <4>3, Zenon DEF RequestHandled
      <4>5. QED BY <3>3, <3>4, <3>5, <4>1, <4>2, <4>4, ReadCases
    <3>6. CASE CommandDone /\ executing = d
      <4>1. PICK payload \in PayloadLens, oom \in SUBSET MayFail :
              client' = [client EXCEPT
                ![executing] = SendReply(@, Reply("command", TRUE, @.hdr), payload,
                                         executing \in oom)]
        BY <3>6 DEF CommandDone, ClientsBecome
      <4>2. PICK m, b : m = Reply("command", TRUE, client[d].hdr) /\ b = (d \in oom)
        OBVIOUS
      <4>3. client'[d] = SendReply(client[d], m, payload, b)
        BY <1>0, <3>6, <4>1, <4>2
      <4>4. m \in Message /\ m.kind = "reply" /\ payload \in Nat /\ b \in BOOLEAN
        <5>1. client[d].hdr \in Nat
          BY <1>0 DEF ClientRec
        <5>2. m \in Message
          BY <4>2, <5>1, MessageTypes DEF RequestTypes
        <5>3. m.kind = "reply"
          BY <4>2 DEF Reply
        <5>4. payload \in Nat /\ b \in BOOLEAN
          BY <4>2, SizesNat
        <5>5. QED BY <5>2, <5>3, <5>4
      <4>5. SendReply(client[d], m, payload, b) \in Begun(<<>>)
        BY <1>0, <2>0, <2>e, <3>1, <4>4, FirstTold
      <4>6. QED BY <4>3, <4>5, BegunFirst
    <3>7. CASE ~ReadHeader(d) /\ ~ReadPayload(d) /\ ~(CommandDone /\ executing = d)
      <4>1. client[d].life \notin {"new", "queued"}
        BY <2>4
      <4>2. client'[d] = client[d] \/ client'[d] = Fresh("gone") \/ EventSent(d)
        BY <1>2, <2>4, <3>7, <4>1, QuietStep
      <4>3. ~EventSent(d)
        BY <3>1 DEF EventSent
      <4>4. QED BY <3>1, <3>3, <3>4, <4>2, <4>3
    <3>8. QED BY <3>5, <3>6, <3>7
  <2>5. QED BY <2>1, <2>2, <2>3, <2>4
<1>3. QED BY <1>1, <1>2

\* The first message a peer gets is the reply to a request: no event and no
\* first tick is sent to a client that has not been answered.
LEMMA FirstInvariant == Spec => []FirstInv
<1>1. QED BY FirstInit, FirstStep, Invariant, LifeInvariant, PTL DEF Spec
================================================================================
