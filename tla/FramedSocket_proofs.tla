-------------------------- MODULE FramedSocket_proofs --------------------------
(***************************************************************************)
(* Proofs about the framing for any number and any sizes of packages, any  *)
(* size of chunks and any buffer of the connection: if every send takes    *)
(* what it is given, the reader puts together the packages that were sent  *)
(* and is never out of step by a byte.                                     *)
(***************************************************************************)
EXTENDS FramedSocket, TLAPS

USE SizesAssumption

ByteSet == [pkg : 1..Packages, at : Nat]
Sizes == [1..Packages -> 0..MaxPayload]

(* The types TypeOK leaves open: those of the bytes and of what was read. *)
Shapes ==
    /\ wire \in Seq(ByteSet)
    /\ recvBuffer \in Seq(ByteSet)
    /\ delivered \in Seq(0..Packages)

(* A package is left when its last byte was given to send, the last one too: *)
(* then the writer does not send any more.                                   *)
WriterInPackage ==
    /\ package <= LastPackage
    /\ totalSent <= PackageSize(package)
    /\ totalSent = PackageSize(package) => wpc # "send" /\ package = LastPackage

turn == Len(delivered) + 1

(* How many bytes of that package the reader has. *)
Read == IF rpc = "payload" THEN HeaderSize + Len(recvBuffer) ELSE Len(recvBuffer)

(* A reader's place in package t, followed by the bytes on the wire. *)
Places(w, t, r) == [i \in 0 .. Len(w) |-> IF i = 0 THEN Byte(t, r) ELSE w[i]]
places == Places(wire, turn, Read)

(* Places 0 to n, of packages of size sz, that end where a writer is that    *)
(* has sent so many bytes of package p: inside a package one after the       *)
(* other, at its end with the next one.                                      *)
IsChain(place, n, sz, p, sent) ==
    /\ \A i \in 0 .. n :
         /\ place[i].pkg <= p
         /\ place[i].at <= HeaderSize + sz[place[i].pkg]
         /\ place[i].pkg = p => place[i].at + (n - i) = sent
         /\ place[i].pkg < p => place[i].at + (n - i) >= HeaderSize + sz[place[i].pkg]
    /\ \A i, j \in 0 .. n :
         i < j /\ place[i].at + (j - i) <= HeaderSize + sz[place[i].pkg] =>
           place[j] = Byte(place[i].pkg, place[i].at + (j - i))
    /\ \A i \in 0 .. n - 1 :
         place[i].at = HeaderSize + sz[place[i].pkg] =>
           place[i + 1] = Byte(place[i].pkg + 1, 1)
    /\ place[n].pkg # p => place[n].pkg = p - 1 /\ sent = 0

(* The bytes on the wire go on where the reader is and end where the writer  *)
(* is, and what the reader still wants is what is missing of its part.       *)
InStep ==
    /\ turn \in 1..Packages /\ turn <= LastPackage
    /\ IsChain(places, Len(wire), size, package, totalSent)
    /\ rpc = "header" => leftToRecv > 0
    /\ rpc = "payload" =>
         /\ Len(recvBuffer) + leftToRecv = size[turn]
         /\ leftToRecv = 0 => recvBuffer = <<>>

(* What was read whole had been sent whole. *)
DeliveredWasSent == Len(delivered) <= SentWhole

IInv ==
    /\ TypeOK
    /\ Shapes
    /\ WriterInPackage
    /\ ~shortWrites => DeliveredIntact /\ PartsNotMixed /\ DeliveredWasSent
    /\ ~shortWrites /\ Reading => InStep

------------------------------------------------------------------------------
LEMMA LastInRange ==
    ASSUME query \in BOOLEAN
    PROVE  LastPackage \in 1..Packages /\ (query => LastPackage = 1)
BY DEF LastPackage

------------------------------------------------------------------------------
(* Chains of bytes. *)

LEMMA ByteParts == \A p, i : Byte(p, i).pkg = p /\ Byte(p, i).at = i
BY DEF Byte

LEMMA TypesInChain ==
    ASSUME NEW n \in Nat, NEW f \in [0 .. n -> ByteSet], NEW sz \in Sizes
    PROVE  /\ \A i \in 0 .. n : f[i].pkg \in 1..Packages /\ f[i].pkg \in Nat /\ f[i].at \in Nat
           /\ \A q \in 1..Packages : sz[q] \in Nat
<1>1. \A b \in ByteSet : b.pkg \in 1..Packages /\ b.pkg \in Nat /\ b.at \in Nat
  BY DEF ByteSet
<1>2. \A q \in 1..Packages : sz[q] \in Nat
  BY DEF Sizes
<1> QED
  BY <1>1, <1>2

(* Sending the next bytes of a package lengthens the chain, and sending the *)
(* last of them leaves the writer at the beginning of the next package.     *)
LEMMA ChainGrows ==
    ASSUME NEW sz \in Sizes, NEW n \in Nat, NEW m \in Nat, m > 0,
           NEW p \in 1..Packages, NEW sent \in Nat,
           sent + m <= HeaderSize + sz[p],
           NEW f \in [0 .. n -> ByteSet], NEW g \in [0 .. n + m -> ByteSet],
           IsChain(f, n, sz, p, sent),
           \A i \in 0 .. n : g[i] = f[i],
           \A i \in n + 1 .. n + m : g[i] = Byte(p, sent + (i - n))
    PROVE  /\ IsChain(g, n + m, sz, p, sent + m)
           /\ sent + m = HeaderSize + sz[p] => IsChain(g, n + m, sz, p + 1, 0)
<1>1. /\ \A q \in 1..Packages : sz[q] \in Nat
      /\ \A i \in 0 .. n + m : g[i].pkg \in 1..Packages /\ g[i].at \in Nat
      /\ \A i \in 0 .. n : f[i].pkg \in 1..Packages /\ f[i].at \in Nat
  <2>1. n + m \in Nat
    OBVIOUS
  <2> QED
    BY <2>1, TypesInChain
<1>2. \A i \in n + 1 .. n + m : g[i].pkg = p /\ g[i].at = sent + (i - n)
  BY ByteParts
<1>3. ASSUME NEW i \in 0 .. n + m
      PROVE  /\ g[i].pkg <= p /\ g[i].at <= HeaderSize + sz[g[i].pkg]
             /\ g[i].pkg = p => g[i].at + (n + m - i) = sent + m
             /\ g[i].pkg < p => g[i].at + (n + m - i) >= HeaderSize + sz[g[i].pkg]
  <2>1. CASE i \in 0 .. n
    <3>1. /\ f[i].pkg <= p /\ f[i].at <= HeaderSize + sz[f[i].pkg]
          /\ f[i].pkg = p => f[i].at + (n - i) = sent
          /\ f[i].pkg < p => f[i].at + (n - i) >= HeaderSize + sz[f[i].pkg]
      BY <2>1 DEF IsChain
    <3>2. f[i].pkg \in 1..Packages /\ f[i].at \in Nat /\ g[i] = f[i]
          /\ sz[f[i].pkg] \in Nat
      BY <1>1, <2>1
    <3>3. PICK a \in 1..Packages, t \in Nat, s \in Nat :
            a = f[i].pkg /\ t = f[i].at /\ s = sz[f[i].pkg]
      BY <3>2, Zenon
    <3>4. /\ a <= p /\ t <= HeaderSize + s
          /\ a = p => t + (n - i) = sent
          /\ a < p => t + (n - i) >= HeaderSize + s
      BY <3>1, <3>3, Zenon
    <3>5. n \in Nat /\ m \in Nat /\ i \in Nat /\ sent \in Nat
      BY <2>1
    <3>6. /\ a = p => t + (n + m - i) = sent + m
          /\ a < p => t + (n + m - i) >= HeaderSize + s
      BY <2>1, <3>4, <3>5
    <3> QED
      BY <3>2, <3>3, <3>4, <3>6, Zenon
  <2>2. CASE i \in n + 1 .. n + m
    BY <1>1, <1>2, <2>2, SMTT(30)
  <2> QED
    BY <2>1, <2>2
<1>4. ASSUME NEW i \in 0 .. n + m, NEW j \in 0 .. n + m, i < j,
             g[i].at + (j - i) <= HeaderSize + sz[g[i].pkg]
      PROVE  g[j] = Byte(g[i].pkg, g[i].at + (j - i))
  <2>1. CASE j \in 0 .. n
    BY <1>4, <2>1 DEF IsChain
  <2>2. CASE i \in 0 .. n /\ j \in n + 1 .. n + m
    <3>1. f[i].pkg < p => f[i].at + (n - i) >= HeaderSize + sz[f[i].pkg]
      BY <2>2 DEF IsChain
    <3>2. f[i].pkg <= p /\ (f[i].pkg = p => f[i].at + (n - i) = sent)
      BY <2>2 DEF IsChain
    <3>3. f[i].pkg \in 1..Packages /\ f[i].at \in Nat /\ g[i] = f[i]
          /\ sz[f[i].pkg] \in Nat
      BY <1>1, <2>2
    <3>4. f[i].pkg = p
      BY <1>4, <2>2, <3>1, <3>2, <3>3, SMTT(60)
    <3>5. sent + (j - n) = f[i].at + (j - i)
      BY <2>2, <3>2, <3>3, <3>4, SMTT(60)
    <3> QED
      BY <2>2, <3>3, <3>4, <3>5
  <2>3. CASE i \in n + 1 .. n + m
    <3>1. sent + (j - n) = g[i].at + (j - i) /\ j \in n + 1 .. n + m
      BY <1>2, <1>4, <2>3
    <3> QED
      BY <1>2, <2>3, <3>1
  <2> QED
    BY <2>1, <2>2, <2>3
<1>5. ASSUME NEW i \in 0 .. n + m - 1, g[i].at = HeaderSize + sz[g[i].pkg]
      PROVE  g[i + 1] = Byte(g[i].pkg + 1, 1)
  <2>1. CASE i \in 0 .. n - 1
    BY <1>5, <2>1 DEF IsChain
  <2>2. CASE i = n
    <3>1. f[n].pkg <= p /\ (f[n].pkg = p => f[n].at + (n - n) = sent)
      BY DEF IsChain
    <3>2. f[n].pkg # p => f[n].pkg = p - 1 /\ sent = 0
      BY DEF IsChain
    <3>3. f[n].pkg = p - 1 /\ sent = 0
      BY <1>1, <1>5, <2>2, <3>1, <3>2
    <3>4. g[n + 1] = Byte(p, 1)
      BY <3>3
    <3> QED
      BY <2>2, <3>3, <3>4
  <2>3. CASE i \in n + 1 .. n + m - 1
    BY <1>1, <1>2, <1>5, <2>3
  <2> QED
    BY <2>1, <2>2, <2>3
<1>6. g[n + m].pkg = p
  BY <1>2
<1>7. IsChain(g, n + m, sz, p, sent + m)
  BY <1>3, <1>4, <1>5, <1>6 DEF IsChain
<1>8. ASSUME sent + m = HeaderSize + sz[p]
      PROVE  IsChain(g, n + m, sz, p + 1, 0)
  <2>1. ASSUME NEW i \in 0 .. n + m
        PROVE  /\ g[i].pkg <= p + 1 /\ g[i].pkg # p + 1
               /\ g[i].at + (n + m - i) >= HeaderSize + sz[g[i].pkg]
    BY <1>1, <1>3, <1>8, SMTT(30)
  <2> QED
    BY <1>3, <1>4, <1>5, <1>6, <2>1 DEF IsChain
<1> QED
  BY <1>7, <1>8

(* Reading the first bytes shortens it. *)
LEMMA ChainShrinks ==
    ASSUME NEW sz \in Sizes, NEW n \in Nat, NEW m \in 0 .. n,
           NEW p \in 1..Packages, NEW sent \in Nat,
           NEW f \in [0 .. n -> ByteSet], NEW g \in [0 .. n - m -> ByteSet],
           IsChain(f, n, sz, p, sent),
           \A i \in 0 .. n - m : g[i] = f[i + m]
    PROVE  IsChain(g, n - m, sz, p, sent)
<1>1. \A i \in 0 .. n - m : i + m \in 0 .. n /\ n - (i + m) = (n - m) - i
  OBVIOUS
<1>2. ASSUME NEW i \in 0 .. n - m
      PROVE  /\ g[i].pkg <= p /\ g[i].at <= HeaderSize + sz[g[i].pkg]
             /\ g[i].pkg = p => g[i].at + (n - m - i) = sent
             /\ g[i].pkg < p => g[i].at + (n - m - i) >= HeaderSize + sz[g[i].pkg]
  BY <1>1 DEF IsChain
<1>3. ASSUME NEW i \in 0 .. n - m, NEW j \in 0 .. n - m, i < j,
             g[i].at + (j - i) <= HeaderSize + sz[g[i].pkg]
      PROVE  g[j] = Byte(g[i].pkg, g[i].at + (j - i))
  <2>1. /\ (j + m) - (i + m) = j - i /\ i + m < j + m
        /\ i + m \in 0 .. n /\ j + m \in 0 .. n
        /\ g[i] = f[i + m] /\ g[j] = f[j + m]
    BY <1>3
  <2>2. f[i + m].at + ((j + m) - (i + m)) <= HeaderSize + sz[f[i + m].pkg] =>
          f[j + m] = Byte(f[i + m].pkg, f[i + m].at + ((j + m) - (i + m)))
    BY <2>1 DEF IsChain
  <2> QED
    BY <1>3, <2>1, <2>2
<1>4. ASSUME NEW i \in 0 .. n - m - 1, g[i].at = HeaderSize + sz[g[i].pkg]
      PROVE  g[i + 1] = Byte(g[i].pkg + 1, 1)
  <2>1. i + m \in 0 .. n - 1 /\ (i + m) + 1 = (i + 1) + m /\ i + 1 \in 0 .. n - m
    OBVIOUS
  <2>2. /\ g[i] = f[i + m] /\ g[i + 1] = f[(i + m) + 1]
    BY <2>1
  <2>3. f[i + m].at = HeaderSize + sz[f[i + m].pkg] =>
          f[(i + m) + 1] = Byte(f[i + m].pkg + 1, 1)
    BY <2>1 DEF IsChain
  <2> QED
    BY <1>4, <2>2, <2>3
<1>5. g[n - m].pkg # p => g[n - m].pkg = p - 1 /\ sent = 0
  BY <1>1 DEF IsChain
<1> QED
  BY <1>2, <1>3, <1>4, <1>5 DEF IsChain

(* A reader at the end of a package is at the beginning of the next one. *)
LEMMA ChainCrosses ==
    ASSUME NEW sz \in Sizes, NEW n \in Nat,
           NEW p \in 1..Packages, NEW sent \in Nat,
           NEW f \in [0 .. n -> ByteSet], NEW g \in [0 .. n -> ByteSet],
           IsChain(f, n, sz, p, sent),
           f[0].pkg < p, f[0].at = HeaderSize + sz[f[0].pkg],
           g[0] = Byte(f[0].pkg + 1, 0),
           \A i \in 1 .. n : g[i] = f[i]
    PROVE  IsChain(g, n, sz, p, sent)
<1> DEFINE t == f[0].pkg
<1>1. /\ \A q \in 1..Packages : sz[q] \in Nat
      /\ \A i \in 0 .. n : g[i].pkg \in 1..Packages /\ g[i].at \in Nat
      /\ \A i \in 0 .. n : f[i].pkg \in 1..Packages /\ f[i].at \in Nat
      /\ t \in 1..Packages
  <2>1. 0 \in 0 .. n
    OBVIOUS
  <2> QED
    BY <2>1, TypesInChain
<1>2. g[0].pkg = t + 1 /\ g[0].at = 0
  BY DEF Byte
<1>3. n = 0 => t + 1 = p /\ sent = 0
  BY <1>1 DEF IsChain
<1>4. n > 0 => f[1] = Byte(t + 1, 1) /\ f[1].pkg = t + 1 /\ f[1].at = 1
  BY DEF IsChain, Byte
<1>5. ASSUME NEW i \in 0 .. n
      PROVE  /\ g[i].pkg <= p /\ g[i].at <= HeaderSize + sz[g[i].pkg]
             /\ g[i].pkg = p => g[i].at + (n - i) = sent
             /\ g[i].pkg < p => g[i].at + (n - i) >= HeaderSize + sz[g[i].pkg]
  <2>1. CASE i = 0
    <3>1. CASE n = 0
      BY <1>1, <1>2, <1>3, <2>1, <3>1
    <3>2. CASE n > 0
      <4>1. /\ f[1].pkg = p => f[1].at + (n - 1) = sent
            /\ f[1].pkg < p => f[1].at + (n - 1) >= HeaderSize + sz[f[1].pkg]
        BY <3>2 DEF IsChain
      <4>2. f[1].pkg = t + 1 /\ f[1].at = 1 /\ t + 1 <= p /\ g[0].pkg = t + 1 /\ g[0].at = 0
            /\ sz[t + 1] \in Nat
        BY <1>1, <1>2, <1>4, <3>2
      <4> QED
        BY <2>1, <3>2, <4>1, <4>2
    <3> QED
      BY <3>1, <3>2
  <2>2. CASE i \in 1 .. n
    BY <2>2 DEF IsChain
  <2> QED
    BY <2>1, <2>2
<1>6. ASSUME NEW i \in 0 .. n, NEW j \in 0 .. n, i < j,
             g[i].at + (j - i) <= HeaderSize + sz[g[i].pkg]
      PROVE  g[j] = Byte(g[i].pkg, g[i].at + (j - i))
  <2>1. CASE i = 0 /\ j = 1
    BY <1>2, <1>4, <2>1
  <2>2. CASE i = 0 /\ j > 1
    <3>1. /\ 1 \in 0 .. n /\ 1 < j /\ f[1].at + (j - 1) = j /\ g[0].at + (j - 0) = j
          /\ f[1].pkg = g[0].pkg
      BY <1>2, <1>4, <2>2, SMTT(30)
    <3>2. f[j] = Byte(f[1].pkg, f[1].at + (j - 1))
      BY <1>6, <2>2, <3>1 DEF IsChain
    <3> QED
      BY <2>2, <3>1, <3>2
  <2>3. CASE i > 0
    BY <1>6, <2>3 DEF IsChain
  <2> QED
    BY <1>6, <2>1, <2>2, <2>3
<1>7. ASSUME NEW i \in 0 .. n - 1, g[i].at = HeaderSize + sz[g[i].pkg]
      PROVE  g[i + 1] = Byte(g[i].pkg + 1, 1)
  <2>1. i # 0
    BY <1>1, <1>2, <1>7
  <2> QED
    BY <1>7, <2>1 DEF IsChain
<1>8. g[n].pkg # p => g[n].pkg = p - 1 /\ sent = 0
  <2>1. CASE n = 0
    BY <1>2, <1>3, <2>1
  <2>2. CASE n > 0
    BY <2>2 DEF IsChain
  <2> QED
    BY <2>1, <2>2
<1> QED
  BY <1>5, <1>6, <1>7, <1>8 DEF IsChain

------------------------------------------------------------------------------
(* Bytes put together and taken apart. *)

LEMMA Joined ==
    ASSUME NEW S, NEW s \in Seq(S), NEW r \in Seq(S)
    PROVE  /\ s \o r \in Seq(S) /\ Len(s \o r) = Len(s) + Len(r)
           /\ \A i \in 1 .. Len(s) : (s \o r)[i] = s[i]
           /\ \A i \in Len(s) + 1 .. Len(s) + Len(r) : (s \o r)[i] = r[i - Len(s)]
OBVIOUS

LEMMA Split ==
    ASSUME NEW S, NEW s \in Seq(S), NEW n \in 1 .. Len(s)
    PROVE  /\ SubSeq(s, 1, n) \in Seq(S) /\ Len(SubSeq(s, 1, n)) = n
           /\ \A i \in 1 .. n : SubSeq(s, 1, n)[i] = s[i]
           /\ SubSeq(s, n + 1, Len(s)) \in Seq(S)
           /\ Len(SubSeq(s, n + 1, Len(s))) = Len(s) - n
           /\ \A i \in 1 .. Len(s) - n : SubSeq(s, n + 1, Len(s))[i] = s[i + n]
OBVIOUS

LEMMA Appended ==
    ASSUME NEW S, NEW s \in Seq(S), NEW x \in S
    PROVE  Append(s, x) \in Seq(S)
OBVIOUS

(* The k bytes of a package after the first so many. *)
LEMMA BytesOf ==
    ASSUME NEW p \in 1..Packages, NEW m \in Nat, NEW k \in Nat
    PROVE  /\ Bytes(p, m + 1, m + k) \in Seq(ByteSet)
           /\ Len(Bytes(p, m + 1, m + k)) = k
           /\ \A i \in 1 .. k : Bytes(p, m + 1, m + k)[i] = Byte(p, m + i)
<1>1. \A i \in Nat : Byte(p, i) \in ByteSet
  BY DEF Byte, ByteSet
<1>2. (m + k) + 1 - (m + 1) = k
  OBVIOUS
<1>3. Bytes(p, m + 1, m + k) = [i \in 1 .. k |-> Byte(p, (m + 1) + i - 1)]
  BY <1>2 DEF Bytes
<1>4. Bytes(p, m + 1, m + k) \in [1 .. k -> ByteSet]
  BY <1>1, <1>3
<1>5. Bytes(p, m + 1, m + k) \in Seq(ByteSet) /\ Len(Bytes(p, m + 1, m + k)) = k
  BY <1>4
<1>6. \A i \in 1 .. k : (m + 1) + i - 1 = m + i
  OBVIOUS
<1> QED
  BY <1>3, <1>5, <1>6

(* Sequences are equal if their lengths and their elements are. *)
LEMMA SameBytes ==
    ASSUME NEW S, NEW s \in Seq(S), NEW r \in Seq(S), Len(s) = Len(r),
           \A i \in 1 .. Len(s) : s[i] = r[i]
    PROVE  s = r
OBVIOUS

(* The k bytes of package p after the first m. *)
Part(p, m, k) == Bytes(p, m + 1, m + k)

(* The bytes of r are those after the first m + k of package p. *)
Follows(r, p, m, k) ==
    r \in Seq(ByteSet) /\ \A i \in 1 .. Len(r) : r[i] = Byte(p, m + k + i)

(* Bytes that go on where others end are bytes of the package, too. *)
LEMMA BytesGoOn ==
    ASSUME NEW p \in 1..Packages, NEW m \in Nat, NEW k \in Nat,
           NEW r, Follows(r, p, m, k)
    PROVE  Part(p, m, k) \o r = Part(p, m, k + Len(r))
<1> DEFINE n == Len(r)
<1>0. r \in Seq(ByteSet) /\ n \in Nat /\ \A i \in 1 .. n : r[i] = Byte(p, m + k + i)
  BY DEF Follows
<1> USE <1>0 DEF Part
<1> HIDE DEF n
<1> DEFINE a == Bytes(p, m + 1, m + k)
           b == Bytes(p, m + 1, m + (k + n))
<1>1. /\ a \in Seq(ByteSet) /\ Len(a) = k /\ \A i \in 1 .. k : a[i] = Byte(p, m + i)
  BY BytesOf, ZenonT(30)
<1>2. /\ b \in Seq(ByteSet) /\ Len(b) = k + n
      /\ \A i \in 1 .. k + n : b[i] = Byte(p, m + i)
  <2>1. ASSUME NEW j \in Nat
        PROVE  /\ Bytes(p, m + 1, m + j) \in Seq(ByteSet)
               /\ Len(Bytes(p, m + 1, m + j)) = j
               /\ \A i \in 1 .. j : Bytes(p, m + 1, m + j)[i] = Byte(p, m + i)
    BY BytesOf, Zenon
  <2>2. k + n \in Nat
    OBVIOUS
  <2> QED
    BY <2>1, <2>2, Zenon
<1> HIDE DEF a, b
<1>3. /\ a \o r \in Seq(ByteSet) /\ Len(a \o r) = k + n
      /\ \A i \in 1 .. k : (a \o r)[i] = a[i]
      /\ \A i \in k + 1 .. k + n : (a \o r)[i] = r[i - k]
  <2>1. /\ a \o r \in Seq(ByteSet) /\ Len(a \o r) = Len(a) + Len(r)
        /\ \A i \in 1 .. Len(a) : (a \o r)[i] = a[i]
        /\ \A i \in Len(a) + 1 .. Len(a) + Len(r) : (a \o r)[i] = r[i - Len(a)]
    BY <1>1, Joined, Zenon
  <2>2. Len(a) = k /\ Len(r) = n
    BY <1>1 DEF n
  <2> QED
    BY <2>1, <2>2, Zenon
<1>4. ASSUME NEW i \in 1 .. k + n PROVE (a \o r)[i] = b[i]
  <2>1. CASE i \in 1 .. k
    BY <1>1, <1>2, <1>3, <2>1
  <2>2. CASE i \in k + 1 .. k + n
    <3>1. i - k \in 1 .. n /\ m + k + (i - k) = m + i
      BY <2>2
    <3>2. r[i - k] = Byte(p, m + i)
      BY <3>1
    <3> QED
      BY <1>2, <1>3, <2>2, <3>2
  <2>3. i \in 1 .. k \/ i \in k + 1 .. k + n
    OBVIOUS
  <2> QED
    BY <2>1, <2>2, <2>3, Zenon
<1>5. a \o r = b
  BY <1>2, <1>3, <1>4, SameBytes
<1> QED
  BY <1>5 DEF a, b, n

(* The places of a reader and of the bytes after it. *)
LEMMA PlacesOf ==
    ASSUME NEW w \in Seq(ByteSet), NEW t \in 1..Packages, NEW r \in Nat
    PROVE  /\ Len(w) \in Nat /\ Places(w, t, r) \in [0 .. Len(w) -> ByteSet]
           /\ Places(w, t, r)[0] = Byte(t, r)
           /\ \A i \in 1 .. Len(w) : Places(w, t, r)[i] = w[i]
<1>1. Byte(t, r) \in ByteSet
  BY DEF Byte, ByteSet
<1>2. Len(w) \in Nat /\ \A i \in 1 .. Len(w) : w[i] \in ByteSet
  OBVIOUS
<1> QED
  BY <1>1, <1>2 DEF Places

------------------------------------------------------------------------------
(* The steps. *)

LEMMA InitIInv == Init => IInv
<1> SUFFICES ASSUME Init PROVE IInv
  OBVIOUS
<1>1. TypeOK /\ Shapes
  <2>1. Len(delivered) <= LastPackage
    BY DEF Init, LastPackage
  <2>2. cut \in BOOLEAN /\ ~cut
    BY Zenon DEF Init
  <2>3. delivered \in Seq(0..Packages) /\ Shapes
    BY DEF Init, Shapes
  <2>4. /\ totalSent \in 0 .. HeaderSize + MaxPayload /\ package \in 1..Packages
        /\ Len(wire) <= SocketBuffer /\ leftToRecv \in Nat /\ header \in 0..Packages
        /\ Len(recvBuffer) + leftToRecv = HeaderSize
    BY DEF Init
  <2>5. /\ query \in BOOLEAN /\ shortWrites \in BOOLEAN
        /\ size \in [1..Packages -> 0..MaxPayload]
        /\ wpc = "send" /\ rpc = "header"
    BY Zenon DEF Init
  <2> QED
    BY <2>1, <2>2, <2>3, <2>4, <2>5 DEF TypeOK
<1>2. WriterInPackage
  BY DEF Init, WriterInPackage, PackageSize, LastPackage
<1>3. turn = 1 /\ Read = 0
  BY DEF Init, turn, Read
<1>4. /\ Len(wire) = 0 /\ places \in [0 .. 0 -> ByteSet] /\ places[0] = Byte(1, 0)
  <2>1. turn \in 1..Packages /\ Read \in Nat
    BY <1>3
  <2>2. places \in [0 .. Len(wire) -> ByteSet] /\ places[0] = Byte(turn, Read)
    BY <1>1, <2>1, PlacesOf DEF places, Shapes
  <2>3. Len(wire) = 0
    BY DEF Init
  <2> QED
    BY <1>3, <2>2, <2>3
<1>5. IsChain(places, Len(wire), size, package, totalSent)
  <2>1. places[0].pkg = 1 /\ places[0].at = 0
    BY <1>4, ByteParts
  <2> QED
    BY <1>1, <1>4, <2>1 DEF IsChain, Init, TypeOK
<1>6. InStep
  BY <1>3, <1>5 DEF InStep, Init, LastPackage
<1>7. DeliveredIntact
  BY DEF DeliveredIntact, Init
<1>8. PartsNotMixed
  <2>1. Bytes(1, 1, 0) = <<>>
    BY DEF Bytes
  <2> QED
    BY <2>1 DEF PartsNotMixed, Init
<1>9. DeliveredWasSent
  <2>1. size[1] \in 0..MaxPayload
    BY DEF Init
  <2> QED
    BY <2>1 DEF Init, DeliveredWasSent, SentWhole, PackageSize
<1> QED
  BY <1>1, <1>2, <1>6, <1>7, <1>8, <1>9 DEF IInv

(* The bytes handed to send lengthen the chain at its end. *)
LEMMA SendIInv ==
    ASSUME IInv, SendChunk
    PROVE  IInv'
<1> DEFINE m == sizeToSend
<1> USE DEF IInv
<1>1. /\ wpc = "send" /\ package \in 1..Packages /\ totalSent \in Nat
      /\ PackageSize(package) \in Nat /\ PackageSize(package) <= HeaderSize + MaxPayload
      /\ PackageSize(package) = HeaderSize + size[package]
      /\ totalSent < PackageSize(package)
  <2>1. size[package] \in 0..MaxPayload /\ package \in 1..Packages /\ totalSent \in Nat
    BY DEF TypeOK
  <2>2. wpc = "send"
    BY DEF SendChunk
  <2> QED
    BY <2>1, <2>2 DEF WriterInPackage, PackageSize
<1>2. m \in Nat /\ 1 <= m /\ totalSent + m <= PackageSize(package)
  BY <1>1 DEF sizeToSend, Smaller
<1>3. PICK k \in Accepted : Given(k) /\ CountUp(m)
  BY DEF SendChunk, Counted
<1>4. k \in 1 .. m /\ (~shortWrites => k = m)
  BY <1>2, <1>3 DEF Accepted
<1>0. package <= LastPackage /\ LastPackage \in 1..Packages
  BY LastInRange DEF TypeOK, WriterInPackage
<1>5. \/ /\ totalSent + m < PackageSize(package) /\ totalSent' = totalSent + m
         /\ wpc' = wpc /\ package' = package
      \/ /\ totalSent + m = PackageSize(package) /\ package < LastPackage
         /\ totalSent' = 0 /\ package' = package + 1 /\ wpc' = wpc
      \/ /\ totalSent + m = PackageSize(package) /\ package = LastPackage
         /\ totalSent' = totalSent + m /\ package' = package /\ wpc' \in {"awaits", "closed"}
  <2>1. IF totalSent + m < PackageSize(package)
          THEN totalSent' = totalSent + m /\ wpc' = wpc /\ package' = package
          ELSE IF package < LastPackage
          THEN totalSent' = 0 /\ package' = package + 1 /\ wpc' = wpc
          ELSE /\ wpc' = IF query THEN "awaits" ELSE "closed"
               /\ totalSent' = PackageSize(package) /\ package' = package
    BY <1>3 DEF CountUp
  <2> HIDE DEF m
  <2> QED
    BY <1>0, <1>1, <1>2, <2>1
<1>6. /\ UNCHANGED <<query, shortWrites, size, rpc, leftToRecv, recvBuffer, header, delivered>>
      /\ Len(wire) + m <= SocketBuffer /\ LastPackage' = LastPackage
      /\ cut' = (cut \/ k < m)
  BY <1>3 DEF SendChunk, Given, setting, readerVars, LastPackage
<1> HIDE DEF m
<1>7. /\ Bytes(package, totalSent + 1, totalSent + k) \in Seq(ByteSet)
      /\ Len(Bytes(package, totalSent + 1, totalSent + k)) = k
      /\ \A i \in 1 .. k :
           Bytes(package, totalSent + 1, totalSent + k)[i] = Byte(package, totalSent + i)
  <2>1. k \in Nat
    BY <1>2, <1>4
  <2> QED
    BY <1>1, <2>1, BytesOf
<1>8. /\ wire' \in Seq(ByteSet) /\ Len(wire') = Len(wire) + k /\ Len(wire) \in Nat
      /\ \A i \in 1 .. Len(wire) : wire'[i] = wire[i]
      /\ \A i \in Len(wire) + 1 .. Len(wire) + k :
           wire'[i] = Byte(package, totalSent + (i - Len(wire)))
  <2> DEFINE b == Bytes(package, totalSent + 1, totalSent + k)
  <2>1. wire \in Seq(ByteSet) /\ b \in Seq(ByteSet) /\ Len(b) = k
    BY <1>7 DEF Shapes
  <2> HIDE DEF b
  <2>2. /\ wire \o b \in Seq(ByteSet) /\ Len(wire \o b) = Len(wire) + k
        /\ \A i \in 1 .. Len(wire) : (wire \o b)[i] = wire[i]
        /\ \A i \in Len(wire) + 1 .. Len(wire) + k : (wire \o b)[i] = b[i - Len(wire)]
    BY <2>1, Joined, ZenonT(30)
  <2>3. Len(wire) \in Nat
    BY <2>1
  <2>4. \A i \in Len(wire) + 1 .. Len(wire) + k : i - Len(wire) \in 1 .. k
    BY <2>3, <1>2, <1>4
  <2>5. wire' = wire \o b
    BY <1>3 DEF b, Given
  <2> QED
    BY <1>7, <2>2, <2>3, <2>4, <2>5 DEF b
<1>9. TypeOK'
  <2>1. Len(wire') <= SocketBuffer
    BY <1>2, <1>4, <1>6, <1>8
  <2>2. package' \in 1..Packages /\ totalSent' \in 0 .. HeaderSize + MaxPayload
    BY <1>0, <1>1, <1>2, <1>5
  <2>3. wpc' \in {"send", "awaits", "closed"}
    BY <1>1, <1>5
  <2>4. cut' \in BOOLEAN /\ (~shortWrites => ~cut')
    BY <1>2, <1>4, <1>6 DEF TypeOK
  <2> QED
    BY <1>6, <2>1, <2>2, <2>3, <2>4 DEF TypeOK
<1>10. Shapes'
  BY <1>6, <1>8 DEF Shapes
<1>11. WriterInPackage'
  <2>1. size[package'] \in Nat
    BY <1>0, <1>1, <1>5, SMTT(30) DEF TypeOK
  <2>2. PackageSize(package)' = HeaderSize + size[package']
    BY <1>6 DEF PackageSize
  <2> QED
    BY <1>0, <1>1, <1>2, <1>5, <1>6, <2>1, <2>2 DEF WriterInPackage
<1>12. ~shortWrites => DeliveredIntact' /\ PartsNotMixed' /\ DeliveredWasSent'
  <2>1. SentWhole = package - 1
    BY <1>1 DEF SentWhole
  <2>2. SentWhole' \in Nat /\ SentWhole' >= package - 1
    <3>1. package' \in Nat /\ package' >= package
      BY <1>1, <1>5
    <3>2. SentWhole' \in {package', package' - 1}
      BY DEF SentWhole
    <3>3. package \in Nat /\ package >= 1
      BY <1>1
    <3>4. \A x, y, z : y \in Nat /\ z \in Nat /\ z >= 1 /\ y >= z /\ x \in {y, y - 1}
                         => x \in Nat /\ x >= z - 1
      OBVIOUS
    <3> QED
      BY <3>1, <3>2, <3>3, <3>4, Zenon
  <2>3. Len(delivered) \in Nat /\ delivered' = delivered
    BY <1>6 DEF Shapes
  <2> QED
    BY <1>1, <1>6, <2>1, <2>2, <2>3 DEF DeliveredIntact, PartsNotMixed, DeliveredWasSent
<1>13. ASSUME ~shortWrites, Reading PROVE InStep'
  <2>1. InStep
    BY <1>13
  <2>2. turn' = turn /\ Read' = Read /\ turn \in 1..Packages /\ Read \in Nat
    BY <1>6, <2>1 DEF turn, Read, InStep, Shapes
  <2>3. /\ places \in [0 .. Len(wire) -> ByteSet] /\ places[0] = Byte(turn, Read)
        /\ \A i \in 1 .. Len(wire) : places[i] = wire[i]
    BY <2>2, PlacesOf DEF places, Shapes
  <2>4. /\ places' \in [0 .. Len(wire') -> ByteSet] /\ places'[0] = Byte(turn, Read)
        /\ \A i \in 1 .. Len(wire') : places'[i] = wire'[i]
    <3>1. places' = Places(wire', turn, Read)
      BY <2>2 DEF places
    <3> QED
      BY <1>8, <2>2, <3>1, PlacesOf
  <2>5. /\ k = m /\ m \in Nat /\ m > 0 /\ totalSent + m <= HeaderSize + size[package]
        /\ size \in Sizes /\ Len(wire') = Len(wire) + m
    <3>1. size \in Sizes
      BY DEF TypeOK, Sizes
    <3> QED
      BY <1>1, <1>2, <1>4, <1>8, <1>13, <3>1
  <2>6. \A i \in 0 .. Len(wire) : places'[i] = places[i]
    <3> SUFFICES ASSUME NEW i \in 0 .. Len(wire) PROVE places'[i] = places[i]
      OBVIOUS
    <3>1. CASE i = 0
      BY <2>3, <2>4, <3>1, Zenon
    <3>2. CASE i # 0
      <4>1. Len(wire) \in Nat /\ Len(wire') = Len(wire) + m /\ m \in Nat
        BY <1>8, <2>5
      <4>2. i \in 1 .. Len(wire) /\ i \in 1 .. Len(wire')
        BY <3>2, <4>1
      <4>3. wire'[i] = wire[i]
        BY <1>8, <4>2
      <4> QED
        BY <2>3, <2>4, <4>2, <4>3, Zenon
    <3> QED
      BY <3>1, <3>2
  <2>7. \A i \in Len(wire) + 1 .. Len(wire) + m :
          places'[i] = Byte(package, totalSent + (i - Len(wire)))
    BY <1>8, <2>4, <2>5
  <2>8. /\ IsChain(places', Len(wire) + m, size, package, totalSent + m)
        /\ totalSent + m = HeaderSize + size[package] =>
             IsChain(places', Len(wire) + m, size, package + 1, 0)
    <3>1. IsChain(places, Len(wire), size, package, totalSent)
      BY <2>1 DEF InStep
    <3>2. places' \in [0 .. Len(wire) + m -> ByteSet]
      BY <2>4, <2>5
    <3> QED
      BY <1>1, <1>8, <2>3, <2>5, <2>6, <2>7, <3>1, <3>2, ChainGrows
  <2>9. IsChain(places', Len(wire'), size, package', totalSent')
    BY <1>1, <1>5, <2>5, <2>8
  <2> QED
    BY <1>6, <2>1, <2>2, <2>9 DEF InStep
<1> QED
  BY <1>6, <1>9, <1>10, <1>11, <1>12, <1>13 DEF Reading

(* A reader at the end of package t is at the beginning of the next one, or *)
(* that was the last one and nothing is left.                               *)
LEMMA NextPackage ==
    ASSUME NEW sz \in Sizes, NEW w \in Seq(ByteSet), NEW t \in 1..Packages,
           NEW p \in 1..Packages, NEW sent \in Nat,
           NEW last, sent <= HeaderSize + sz[p], sent = HeaderSize + sz[p] => p = last,
           IsChain(Places(w, t, HeaderSize + sz[t]), Len(w), sz, p, sent)
    PROVE  \/ /\ t < p
              /\ IsChain(Places(w, t + 1, 0), Len(w), sz, p, sent)
           \/ t = p /\ t = last /\ sent = HeaderSize + sz[p]
<1> DEFINE f == Places(w, t, HeaderSize + sz[t])
           g == Places(w, t + 1, 0)
<1>1. sz[t] \in Nat /\ sz[p] \in Nat /\ Len(w) \in Nat
  BY DEF Sizes
<1>2. /\ f \in [0 .. Len(w) -> ByteSet] /\ f[0] = Byte(t, HeaderSize + sz[t])
      /\ \A i \in 1 .. Len(w) : f[i] = w[i]
  BY <1>1, PlacesOf
<1> HIDE DEF f
<1>3. f[0].pkg = t /\ f[0].at = HeaderSize + sz[t]
  BY <1>2, ByteParts
<1>4. IsChain(f, Len(w), sz, p, sent)
  BY DEF f
<1>5. t <= p /\ (t = p => HeaderSize + sz[t] + (Len(w) - 0) = sent)
  BY <1>1, <1>3, <1>4 DEF IsChain
<1>6. CASE t = p
  <2>1. Len(w) = 0 /\ sent = HeaderSize + sz[p]
    BY <1>1, <1>5, <1>6
  <2> QED
    BY <1>6, <2>1
<1>7. CASE t < p
  <2>1. /\ g \in [0 .. Len(w) -> ByteSet] /\ g[0] = Byte(t + 1, 0)
        /\ \A i \in 1 .. Len(w) : g[i] = w[i]
    <3>1. t + 1 \in 1..Packages /\ 0 \in Nat
      BY <1>7
    <3> QED
      BY <3>1, PlacesOf
  <2> HIDE DEF g
  <2>2. IsChain(g, Len(w), sz, p, sent)
    BY <1>1, <1>2, <1>3, <1>4, <1>7, <2>1, ChainCrosses
  <2> QED
    BY <1>7, <2>2 DEF g
<1> QED
  BY <1>1, <1>5, <1>6, <1>7

(* A payload complete at the right place is a package delivered in its turn. *)
LEMMA DeliverInTurn ==
    ASSUME IInv, ~shortWrites, rpc = "payload", InStep, NEW bytes, Deliver(bytes),
           query' = query,
           IsPayloadOf(bytes, turn), header = turn, wire' \in Seq(ByteSet),
           UNCHANGED <<shortWrites, size, wpc, package, totalSent>>,
           IsChain(Places(wire', turn, HeaderSize + size[turn]), Len(wire'),
                   size, package, totalSent)
    PROVE  /\ Len(delivered') <= LastPackage'
           /\ DeliveredIntact' /\ PartsNotMixed' /\ DeliveredWasSent' /\ (Reading' => InStep')
<1> USE DEF IInv
<1>1. /\ delivered' = Append(delivered, turn)
      /\ rpc' = IF turn < LastPackage THEN "header" ELSE "stopped"
      /\ leftToRecv' = HeaderSize /\ recvBuffer' = <<>>
  BY DEF Deliver, InStep, ReadOn
<1>0. LastPackage \in 1..Packages /\ LastPackage' = LastPackage /\ turn <= LastPackage
  BY LastInRange DEF LastPackage, TypeOK, InStep
<1>2. delivered \in Seq(0..Packages) /\ turn \in 1..Packages /\ turn = Len(delivered) + 1
  BY DEF Shapes, InStep, turn
<1>3. /\ delivered' \in Seq(0..Packages) /\ Len(delivered') = Len(delivered) + 1
      /\ delivered'[Len(delivered) + 1] = turn
      /\ \A i \in 1 .. Len(delivered) : delivered'[i] = delivered[i]
  BY <1>1, <1>2
<1>4. Len(delivered') <= LastPackage' /\ turn' = turn + 1 /\ Read' = 0
  BY <1>0, <1>1, <1>2, <1>3 DEF turn, Read
<1>5. DeliveredIntact'
  <2>1. \A i \in 1 .. Len(delivered) : delivered[i] = i
    BY <1>2 DEF DeliveredIntact
  <2>2. DOMAIN delivered' = 1 .. Len(delivered) + 1 /\ Len(delivered) \in Nat
    BY <1>2, <1>3
  <2>3. \A i \in DOMAIN delivered' : delivered'[i] = i
    BY <1>2, <1>3, <2>1, <2>2, SMTT(30)
  <2> QED
    BY <2>3 DEF DeliveredIntact
<1>6. PartsNotMixed'
  <2>1. Bytes(turn', 1, 0) = <<>>
    BY DEF Bytes
  <2>2. Len(recvBuffer') = 0
    BY <1>1
  <2>3. recvBuffer' = Bytes(Len(delivered') + 1, 1, Len(recvBuffer'))
    BY <1>1, <2>1, <2>2 DEF turn
  <2> QED
    BY <1>1, <2>3 DEF PartsNotMixed
<1>7. /\ size \in Sizes /\ package \in 1..Packages /\ totalSent \in Nat
      /\ totalSent <= HeaderSize + size[package]
      /\ totalSent = HeaderSize + size[package] => package = LastPackage
  BY SMTT(30) DEF TypeOK, Sizes, WriterInPackage, PackageSize
<1>8. \/ /\ turn < package
         /\ IsChain(Places(wire', turn + 1, 0), Len(wire'), size, package, totalSent)
      \/ /\ turn = package /\ turn = LastPackage
         /\ totalSent = HeaderSize + size[package]
  BY <1>2, <1>7, NextPackage
<1>9. DeliveredWasSent'
  <2>1. SentWhole' = SentWhole
    BY DEF SentWhole, PackageSize
  <2>2. turn <= SentWhole
    BY <1>2, <1>7, <1>8 DEF SentWhole, PackageSize
  <2> QED
    BY <1>2, <1>3, <2>1, <2>2 DEF DeliveredWasSent
<1>10. ASSUME Reading' PROVE InStep'
  <2>1. turn < LastPackage /\ rpc' = "header"
    BY <1>1, <1>10 DEF Reading
  <2>2. /\ turn < package
        /\ IsChain(Places(wire', turn + 1, 0), Len(wire'), size, package, totalSent)
    BY <1>0, <1>2, <1>8, <2>1
  <2>3. IsChain(places', Len(wire'), size', package', totalSent')
    BY <1>4, <2>2 DEF places
  <2>4. turn' \in 1..Packages /\ turn' <= LastPackage'
    BY <1>0, <1>2, <1>4, <1>7, <2>1, <2>2
  <2> QED
    BY <1>1, <2>1, <2>3, <2>4 DEF InStep
<1> QED
  BY <1>4, <1>5, <1>6, <1>9, <1>10

(* What recv takes is the next bytes of the part the reader is at: it asks *)
(* for no more than is left of it.                                         *)
LEMMA NextBytes ==
    ASSUME IInv, ~shortWrites, InStep, Reading,
           NEW n \in 1 .. Len(wire), n <= leftToRecv
    PROVE  /\ Read \in Nat /\ Read + n <= PackageSize(turn)
           /\ \A i \in 1 .. n : wire[i] = Byte(turn, Read + i)
           /\ IsChain(Places(SubSeq(wire, n + 1, Len(wire)), turn, Read + n), Len(wire) - n,
                      size, package, totalSent)
<1> USE DEF IInv
<1>1. /\ wire \in Seq(ByteSet) /\ Len(wire) \in Nat /\ turn \in 1..Packages
      /\ size \in Sizes /\ size[turn] \in Nat /\ n \in Nat
      /\ package \in 1..Packages /\ totalSent \in Nat
  BY SMTT(30) DEF Shapes, InStep, TypeOK, Sizes
<1>2. Len(recvBuffer) \in Nat /\ leftToRecv \in Nat
  BY DEF Shapes, TypeOK
<1>3. Read \in Nat /\ Read + n <= HeaderSize + size[turn]
  <2>1. CASE rpc = "header"
    <3>1. Len(recvBuffer) + leftToRecv = HeaderSize /\ Read = Len(recvBuffer)
      BY <2>1 DEF TypeOK, Read
    <3> QED
      BY <1>1, <1>2, <3>1
  <2>2. CASE rpc = "payload"
    <3>1. Len(recvBuffer) + leftToRecv = size[turn] /\ Read = HeaderSize + Len(recvBuffer)
      BY <2>2 DEF InStep, Read
    <3> QED
      BY <1>1, <1>2, <3>1
  <2> QED
    BY <2>1, <2>2 DEF Reading
<1>4. /\ places \in [0 .. Len(wire) -> ByteSet] /\ places[0] = Byte(turn, Read)
      /\ \A i \in 1 .. Len(wire) : places[i] = wire[i]
  BY <1>1, <1>3, PlacesOf DEF places
<1>5. IsChain(places, Len(wire), size, package, totalSent)
  BY DEF InStep
<1>6. places[0].pkg = turn /\ places[0].at = Read
  BY <1>4, ByteParts
<1>7. ASSUME NEW i \in 1 .. n PROVE wire[i] = Byte(turn, Read + i)
  <2>1. 0 \in 0 .. Len(wire) /\ i \in 0 .. Len(wire) /\ 0 < i /\ i - 0 = i
        /\ i \in 1 .. Len(wire) /\ Read + i <= HeaderSize + size[turn]
    BY <1>1, <1>3
  <2>2. places[0].at + (i - 0) <= HeaderSize + size[places[0].pkg] =>
          places[i] = Byte(places[0].pkg, places[0].at + (i - 0))
    BY <1>5, <2>1 DEF IsChain
  <2> QED
    BY <1>4, <1>6, <2>1, <2>2
<1> DEFINE w == SubSeq(wire, n + 1, Len(wire))
           g == Places(w, turn, Read + n)
<1>8. w \in Seq(ByteSet) /\ Len(w) = Len(wire) - n /\ \A i \in 1 .. Len(w) : w[i] = wire[i + n]
  BY <1>1, Split, SMTT(30)
<1> HIDE DEF w
<1>9. /\ g \in [0 .. Len(w) -> ByteSet] /\ g[0] = Byte(turn, Read + n)
      /\ \A i \in 1 .. Len(w) : g[i] = w[i]
  <2>1. Read + n \in Nat /\ turn \in 1..Packages /\ w \in Seq(ByteSet)
    BY <1>1, <1>3, <1>8
  <2> QED
    BY <2>1, PlacesOf, ZenonT(30)
<1> HIDE DEF g
<1>10. ASSUME NEW i \in 0 .. Len(wire) - n PROVE g[i] = places[i + n]
  <2>1. CASE i = 0
    <3>1. places[n] = Byte(turn, Read + n) /\ 0 + n = n
      BY <1>1, <1>4, <1>7
    <3> QED
      BY <1>9, <2>1, <3>1, Zenon
  <2>2. CASE i \in 1 .. Len(w)
    BY <1>1, <1>4, <1>8, <1>9, <2>2
  <2> QED
    BY <1>1, <1>8, <2>1, <2>2
<1>11. IsChain(g, Len(wire) - n, size, package, totalSent)
  <2>1. n \in 0 .. Len(wire) /\ g \in [0 .. Len(wire) - n -> ByteSet]
    BY <1>1, <1>8, <1>9
  <2> QED
    BY <1>1, <1>4, <1>5, <1>10, <2>1, ChainShrinks
<1> QED
  BY <1>3, <1>7, <1>11 DEF g, w, PackageSize

(* ... and with what the buffer holds they are bytes of that part alone. *)
LEMMA NextPart ==
    ASSUME IInv, ~shortWrites, InStep, Reading,
           NEW n \in 1 .. Len(wire), n <= leftToRecv
    PROVE  /\ rpc = "header" =>
                recvBuffer \o SubSeq(wire, 1, n) = Bytes(turn, 1, Len(recvBuffer) + n)
           /\ rpc = "payload" =>
                recvBuffer \o SubSeq(wire, 1, n)
                  = Bytes(turn, HeaderSize + 1, HeaderSize + (Len(recvBuffer) + n))
<1> USE DEF IInv
<1> DEFINE taken == SubSeq(wire, 1, n)
           had == Len(recvBuffer)
<1>1. wire \in Seq(ByteSet) /\ turn \in 1..Packages /\ n \in Nat /\ had \in Nat
  BY DEF Shapes, InStep
<1>2. taken \in Seq(ByteSet) /\ Len(taken) = n /\ \A i \in 1 .. n : taken[i] = wire[i]
  BY <1>1, Split
<1> HIDE SizesAssumption DEF taken, had
<1>3. \A i \in 1 .. n : taken[i] = Byte(turn, Read + i)
  BY <1>2, NextBytes
<1>4. CASE rpc = "header"
  <2>1. /\ recvBuffer = Part(turn, 0, had)
        /\ \A i \in 1 .. n : taken[i] = Byte(turn, 0 + had + i)
    BY <1>1, <1>3, <1>4 DEF PartsNotMixed, turn, Read, had, Part
  <2>2. Part(turn, 0, had) \o taken = Part(turn, 0, had + n)
    <3>1. 0 \in Nat /\ turn \in 1..Packages /\ had \in Nat
      BY <1>1
    <3>2. Follows(taken, turn, 0, had)
      BY <1>2, <2>1 DEF Follows
    <3>3. Part(turn, 0, had) \o taken = Part(turn, 0, had + Len(taken))
      BY <3>1, <3>2, BytesGoOn, Zenon
    <3> QED
      BY <1>2, <3>3
  <2> QED
    BY <1>1, <1>4, <2>1, <2>2 DEF taken, had, Part
<1>5. CASE rpc = "payload"
  <2>1. /\ recvBuffer = Part(turn, HeaderSize, had)
        /\ \A i \in 1 .. n : taken[i] = Byte(turn, HeaderSize + had + i)
    BY <1>1, <1>3, <1>5 DEF PartsNotMixed, turn, Read, had, Part
  <2>2. Part(turn, HeaderSize, had) \o taken = Part(turn, HeaderSize, had + n)
    <3>1. HeaderSize \in Nat /\ turn \in 1..Packages /\ had \in Nat
      BY <1>1, SizesAssumption
    <3>2. Follows(taken, turn, HeaderSize, had)
      BY <1>2, <2>1 DEF Follows
    <3>3. Part(turn, HeaderSize, had) \o taken = Part(turn, HeaderSize, had + Len(taken))
      BY <3>1, <3>2, BytesGoOn, Zenon
    <3> QED
      BY <1>2, <3>3
  <2> QED
    BY <1>5, <2>1, <2>2 DEF taken, had, Part
<1> QED
  BY <1>4, <1>5 DEF Reading

(* A header is that of one package only. *)
LEMMA OneHeader ==
    ASSUME NEW p \in 1..Packages, NEW q \in 1..Packages, NEW bytes,
           IsHeaderOf(bytes, p), IsHeaderOf(bytes, q)
    PROVE  p = q
<1>1. ASSUME NEW t \in 1..Packages PROVE Bytes(t, 1, HeaderSize)[1] = Byte(t, 1)
  BY <1>1 DEF Bytes
<1>2. Byte(p, 1) = Byte(q, 1)
  BY <1>1 DEF IsHeaderOf
<1> QED
  BY <1>2, ByteParts

LEMMA EmptyBytes == \A p, m : m \in Nat => Bytes(p, m + 1, m) = <<>>
<1> SUFFICES ASSUME NEW p, NEW m \in Nat PROVE Bytes(p, m + 1, m) = <<>>
  OBVIOUS
<1>1. 1 .. (m + 1 - (m + 1)) = {} /\ m + 1 - (m + 1) = 0
  OBVIOUS
<1> QED
  BY <1>1 DEF Bytes

(* What recv takes goes to the present part, and completes it at most. *)
LEMMA RecvIInv ==
    ASSUME IInv, Recv
    PROVE  IInv'
<1> USE DEF IInv
<1>1. PICK n \in RecvSize :
        LET bytes == recvBuffer \o SubSeq(wire, 1, n) IN
        /\ wire' = SubSeq(wire, n + 1, Len(wire))
        /\ IF n < leftToRecv
             THEN /\ recvBuffer' = bytes
                  /\ leftToRecv' = leftToRecv - n
                  /\ UNCHANGED <<rpc, header, delivered>>
             ELSE IF rpc = "header" THEN StartPayload(bytes)
             ELSE Deliver(bytes)
  BY DEF Recv
<1> DEFINE bytes == recvBuffer \o SubSeq(wire, 1, n)
<1>2. /\ Reading /\ leftToRecv > 0 /\ wire # <<>> /\ LastPackage' = LastPackage
      /\ UNCHANGED <<query, shortWrites, size, wpc, package, totalSent, cut>>
  BY DEF Recv, setting, writerVars, LastPackage
<1>3. /\ wire \in Seq(ByteSet) /\ Len(wire) \in Nat /\ recvBuffer \in Seq(ByteSet)
      /\ Len(recvBuffer) \in Nat /\ leftToRecv \in Nat /\ delivered \in Seq(0..Packages)
  BY DEF Shapes, TypeOK
<1>4. n \in 1 .. Len(wire) /\ n \in Nat /\ n <= leftToRecv
  <2>1. n \in 1 .. Smaller(IF rpc = "header" THEN leftToRecv
                           ELSE Smaller(leftToRecv, MAXIMUM_PACKAGE_BUFFER_SIZE), Len(wire))
    BY DEF RecvSize
  <2> QED
    BY <1>3, <2>1 DEF Smaller
<1>5. wire' \in Seq(ByteSet) /\ Len(wire') = Len(wire) - n /\ Len(wire') <= SocketBuffer
  <2>1. wire' = SubSeq(wire, n + 1, Len(wire))
    BY <1>1
  <2>2. Len(wire) <= SocketBuffer
    BY DEF TypeOK
  <2>3. /\ SubSeq(wire, n + 1, Len(wire)) \in Seq(ByteSet)
        /\ Len(SubSeq(wire, n + 1, Len(wire))) = Len(wire) - n
    BY <1>3, <1>4, Split
  <2> QED
    BY <1>3, <1>4, <2>1, <2>2, <2>3
<1>6. bytes \in Seq(ByteSet) /\ Len(bytes) = Len(recvBuffer) + n
  <2>1. SubSeq(wire, 1, n) \in Seq(ByteSet) /\ Len(SubSeq(wire, 1, n)) = n
    BY <1>3, <1>4, Split
  <2> QED
    BY <1>3, <2>1, Joined
<1>7. \/ /\ n < leftToRecv /\ recvBuffer' = bytes /\ leftToRecv' = leftToRecv - n
         /\ UNCHANGED <<rpc, header, delivered>>
      \/ n = leftToRecv /\ rpc = "header" /\ StartPayload(bytes)
      \/ n = leftToRecv /\ rpc = "payload" /\ Deliver(bytes)
  <2>1. IF n < leftToRecv
          THEN /\ recvBuffer' = bytes
               /\ leftToRecv' = leftToRecv - n
               /\ UNCHANGED <<rpc, header, delivered>>
          ELSE IF rpc = "header" THEN StartPayload(bytes)
          ELSE Deliver(bytes)
    BY <1>1
  <2>2. rpc \in {"header", "payload"} /\ ~(n < leftToRecv) => n = leftToRecv
    BY <1>3, <1>4
  <2>3. rpc \in {"header", "payload"}
    BY <1>2 DEF Reading
  <2> HIDE DEF bytes
  <2> QED
    BY <2>1, <2>2, <2>3
<1>8. WriterInPackage'
  BY <1>2 DEF WriterInPackage, PackageSize
<1>9. ASSUME ~shortWrites
      PROVE  /\ InStep /\ DeliveredIntact /\ PartsNotMixed /\ DeliveredWasSent
             /\ turn \in 1..Packages /\ size[turn] \in Nat
             /\ Read \in Nat /\ Read + n <= PackageSize(turn)
             /\ IsChain(Places(wire', turn, Read + n), Len(wire'), size, package, totalSent)
             /\ rpc = "header" => bytes = Bytes(turn, 1, Len(recvBuffer) + n)
             /\ rpc = "payload" =>
                  bytes = Bytes(turn, HeaderSize + 1, HeaderSize + (Len(recvBuffer) + n))
  <2>1. InStep
    BY <1>2, <1>9
  <2>2. turn \in 1..Packages /\ size[turn] \in Nat
    BY <2>1 DEF InStep, TypeOK
  <2>3. /\ Read \in Nat /\ Read + n <= PackageSize(turn)
        /\ IsChain(Places(SubSeq(wire, n + 1, Len(wire)), turn, Read + n), Len(wire) - n,
                   size, package, totalSent)
    BY <1>2, <1>4, <1>9, <2>1, NextBytes
  <2>4. IsChain(Places(wire', turn, Read + n), Len(wire'), size, package, totalSent)
    BY <1>1, <1>5, <2>3
  <2>5. /\ rpc = "header" => bytes = Bytes(turn, 1, Len(recvBuffer) + n)
        /\ rpc = "payload" =>
             bytes = Bytes(turn, HeaderSize + 1, HeaderSize + (Len(recvBuffer) + n))
    BY <1>2, <1>4, <1>9, <2>1, NextPart
  <2> QED
    BY <1>9, <2>1, <2>2, <2>3, <2>4, <2>5
<1> HIDE DEF bytes
<1>10. CASE /\ n < leftToRecv /\ recvBuffer' = bytes /\ leftToRecv' = leftToRecv - n
            /\ UNCHANGED <<rpc, header, delivered>>
  <2>1. /\ Len(recvBuffer') + leftToRecv' = Len(recvBuffer) + leftToRecv
        /\ leftToRecv' \in Nat /\ leftToRecv' > 0
    <3>1. Len(recvBuffer') = Len(recvBuffer) + n /\ leftToRecv' = leftToRecv - n
      BY <1>6, <1>10
    <3> QED
      BY <1>3, <1>4, <1>10, <3>1
  <2>2. TypeOK'
    BY <1>2, <1>5, <1>10, <2>1 DEF TypeOK
  <2>3. Shapes'
    BY <1>3, <1>5, <1>6, <1>10 DEF Shapes
  <2>4. ASSUME ~shortWrites PROVE DeliveredIntact' /\ PartsNotMixed' /\ DeliveredWasSent' /\ InStep'
    <3>1. DeliveredIntact' /\ DeliveredWasSent'
      BY <1>2, <1>9, <1>10, <2>4 DEF DeliveredIntact, DeliveredWasSent, SentWhole, PackageSize
    <3>2. turn' = turn /\ rpc' = rpc /\ header' = header /\ turn = Len(delivered') + 1
      BY <1>10 DEF turn
    <3>3. PartsNotMixed'
      <4>1. rpc = "payload" => header = turn
        BY <1>9, <2>4 DEF PartsNotMixed, turn
      <4> QED
        BY <1>6, <1>9, <1>10, <2>4, <3>2, <4>1 DEF PartsNotMixed
    <3>4. Read' = Read + n
      <4>1. Len(recvBuffer') = Len(recvBuffer) + n /\ rpc' = rpc
        BY <1>6, <1>10
      <4> QED
        BY <1>3, <1>4, <4>1 DEF Read
    <3>5. IsChain(places', Len(wire'), size', package', totalSent')
      BY <1>2, <1>9, <2>4, <3>2, <3>4 DEF places
    <3>6. rpc = "payload" => Len(recvBuffer) + leftToRecv = size[turn]
      BY <1>9, <2>4 DEF InStep
    <3> QED
      BY <1>2, <1>9, <2>1, <2>4, <3>1, <3>2, <3>3, <3>5, <3>6 DEF InStep
  <2> QED
    BY <1>2, <1>8, <2>2, <2>3, <2>4
<1>11. CASE n = leftToRecv /\ rpc = "header" /\ StartPayload(bytes)
  <2>1. /\ rpc' = "payload" /\ recvBuffer' = <<>> /\ delivered' = delivered
        /\ Len(recvBuffer') = 0 /\ recvBuffer' \in Seq(ByteSet)
    BY <1>11 DEF StartPayload
  <2>2. \/ \E p \in 1..Packages : IsHeaderOf(bytes, p) /\ header' = p /\ leftToRecv' = size[p]
        \/ /\ \A p \in 1..Packages : ~IsHeaderOf(bytes, p)
           /\ header' = 0 /\ leftToRecv' \in 0..MaxPayload
    BY <1>11 DEF StartPayload
  <2>3. header' \in 0..Packages /\ leftToRecv' \in 0..MaxPayload
    <3>1. size \in [1..Packages -> 0..MaxPayload]
      BY DEF TypeOK
    <3> QED
      BY <2>2, <3>1
  <2>4. TypeOK'
    <3>1. /\ rpc' = "payload" /\ Len(recvBuffer') + leftToRecv' <= MaxPayload
          /\ leftToRecv' \in Nat
      <4>1. \A k \in 0..MaxPayload : k \in Nat /\ 0 + k <= MaxPayload
        OBVIOUS
      <4> QED
        BY <2>1, <2>3, <4>1
    <3>2. header' \in 0..Packages /\ delivered' = delivered
      BY <2>1, <2>3
    <3> QED
      BY <1>2, <1>5, <3>1, <3>2 DEF TypeOK
  <2>5. Shapes'
    BY <1>3, <1>5, <2>1 DEF Shapes
  <2>6. ASSUME ~shortWrites PROVE DeliveredIntact' /\ PartsNotMixed' /\ DeliveredWasSent' /\ InStep'
    <3>1. DeliveredIntact' /\ DeliveredWasSent'
      BY <1>2, <1>9, <2>1, <2>6 DEF DeliveredIntact, DeliveredWasSent, SentWhole, PackageSize
    <3>2. Len(recvBuffer) + n = HeaderSize
      BY <1>11 DEF TypeOK
    <3>3. IsHeaderOf(bytes, turn)
      BY <1>9, <1>11, <2>6, <3>2 DEF IsHeaderOf
    <3>4. header' = turn /\ leftToRecv' = size[turn]
      BY <1>9, <2>2, <2>6, <3>3, OneHeader
    <3>5. turn' = turn /\ turn = Len(delivered') + 1
      BY <2>1 DEF turn
    <3>6. Bytes(turn, HeaderSize + 1, HeaderSize + 0) = <<>>
      <4>1. HeaderSize \in Nat /\ HeaderSize + 0 = HeaderSize
        OBVIOUS
      <4> QED
        BY <4>1, EmptyBytes
    <3>7. PartsNotMixed'
      BY <2>1, <3>4, <3>5, <3>6 DEF PartsNotMixed
    <3>8. Read' = HeaderSize /\ Read + n = HeaderSize
      BY <1>11, <2>1, <3>2 DEF Read
    <3>9. IsChain(places', Len(wire'), size', package', totalSent')
      BY <1>2, <1>9, <2>6, <3>5, <3>8 DEF places
    <3> QED
      BY <1>2, <1>9, <2>1, <2>6, <3>1, <3>4, <3>5, <3>7, <3>9 DEF InStep
  <2> QED
    BY <1>2, <1>8, <2>4, <2>5, <2>6
<1>12. CASE n = leftToRecv /\ rpc = "payload" /\ Deliver(bytes)
  <2>1. /\ rpc' \in {"header", "stopped", "left"} /\ recvBuffer' = <<>>
        /\ leftToRecv' = HeaderSize
        /\ header' = header /\ Len(recvBuffer') = 0 /\ recvBuffer' \in Seq(ByteSet)
        /\ \/ delivered' = Append(delivered, header)
           \/ delivered' = Append(delivered, 0)
           \/ delivered' = delivered
    BY <1>12 DEF Deliver, ReadOn, Returned
  <2>2. Shapes'
    <3>1. header \in 0..Packages /\ 0 \in 0..Packages
      BY DEF TypeOK
    <3>2. /\ Append(delivered, header) \in Seq(0..Packages)
          /\ Append(delivered, 0) \in Seq(0..Packages)
      BY <1>3, <3>1, Appended, Zenon
    <3>3. delivered' \in Seq(0..Packages)
      BY <1>3, <2>1, <3>2, Zenon
    <3> QED
      BY <1>5, <2>1, <3>3 DEF Shapes
  <2>3. ASSUME ~shortWrites
        PROVE  /\ Len(delivered') <= LastPackage' /\ DeliveredIntact' /\ PartsNotMixed'
               /\ DeliveredWasSent' /\ (Reading' => InStep')
    <3>1. Len(recvBuffer) + n = size[turn]
      BY <1>9, <1>12, <2>3 DEF InStep
    <3>2. Read + n = HeaderSize + size[turn]
      BY <1>3, <1>4, <1>12, <3>1 DEF Read
    <3>3. header = turn
      BY <1>9, <1>12, <2>3 DEF PartsNotMixed, turn
    <3>4. IsPayloadOf(bytes, turn)
      BY <1>9, <1>12, <2>3, <3>1 DEF IsPayloadOf, PackageSize
    <3>5. IsChain(Places(wire', turn, HeaderSize + size[turn]), Len(wire'),
                  size, package, totalSent)
      BY <1>9, <2>3, <3>2
    <3> QED
      BY <1>2, <1>5, <1>9, <1>12, <2>3, <3>3, <3>4, <3>5, DeliverInTurn
  <2>4. TypeOK'
    BY <1>2, <1>5, <2>1, <2>3 DEF TypeOK
  <2> QED
    BY <1>2, <1>8, <2>2, <2>3, <2>4
<1> QED
  BY <1>7, <1>10, <1>11, <1>12

(* A payload of no bytes is complete as soon as it is awaited. *)
LEMMA EmptyPayloadIInv ==
    ASSUME IInv, EmptyPayload
    PROVE  IInv'
<1> USE DEF IInv
<1>1. /\ rpc = "payload" /\ leftToRecv = 0 /\ Deliver(<<>>)
      /\ UNCHANGED <<query, shortWrites, size, wpc, package, totalSent, cut, wire>>
      /\ LastPackage' = LastPackage
  BY DEF EmptyPayload, setting, writerVars, LastPackage
<1>2. /\ rpc' \in {"header", "stopped", "left"} /\ recvBuffer' = <<>>
      /\ leftToRecv' = HeaderSize
      /\ header' = header /\ Len(recvBuffer') = 0 /\ recvBuffer' \in Seq(ByteSet)
      /\ \/ delivered' = Append(delivered, header)
         \/ delivered' = Append(delivered, 0)
         \/ delivered' = delivered
  BY <1>1 DEF Deliver, ReadOn, Returned
<1>3. Shapes'
  <2>1. header \in 0..Packages /\ 0 \in 0..Packages
    BY DEF TypeOK
  <2>2. delivered \in Seq(0..Packages)
    BY DEF Shapes
  <2>3. /\ Append(delivered, header) \in Seq(0..Packages)
        /\ Append(delivered, 0) \in Seq(0..Packages)
    BY <2>1, <2>2, Appended, Zenon
  <2>4. delivered' \in Seq(0..Packages)
    BY <1>2, <2>2, <2>3, Zenon
  <2> QED
    BY <1>1, <1>2, <2>4 DEF Shapes
<1>4. ASSUME ~shortWrites
      PROVE  /\ Len(delivered') <= LastPackage' /\ DeliveredIntact' /\ PartsNotMixed'
             /\ DeliveredWasSent' /\ (Reading' => InStep')
  <2>1. InStep
    BY <1>1, <1>4 DEF Reading
  <2>2. recvBuffer = <<>> /\ size[turn] = 0 /\ turn \in 1..Packages
    <3>1. recvBuffer = <<>> /\ Len(recvBuffer) + leftToRecv = size[turn]
      BY <1>1, <2>1 DEF InStep
    <3> QED
      BY <1>1, <2>1, <3>1 DEF InStep
  <2>3. header = turn
    BY <1>1, <1>4 DEF PartsNotMixed, turn
  <2>4. IsPayloadOf(<<>>, turn)
    <3>1. PackageSize(turn) = HeaderSize /\ HeaderSize \in Nat
      BY <2>2 DEF PackageSize
    <3> QED
      BY <3>1, EmptyBytes DEF IsPayloadOf
  <2>5. IsChain(Places(wire', turn, HeaderSize + size[turn]), Len(wire'),
                size, package, totalSent)
    <3>1. Read = HeaderSize + size[turn]
      BY <1>1, <2>2 DEF Read
    <3> QED
      BY <1>1, <2>1, <3>1 DEF InStep, places
  <2> QED
    BY <1>1, <1>4, <2>1, <2>3, <2>4, <2>5, DeliverInTurn DEF Shapes
<1>5. TypeOK'
  BY <1>1, <1>2, <1>4 DEF TypeOK
<1>6. WriterInPackage'
  BY <1>1 DEF WriterInPackage, PackageSize
<1> QED
  BY <1>1, <1>3, <1>4, <1>5, <1>6

(* A reader that stops and a writer that gives up change no byte. *)
LEMMA StopsIInv ==
    ASSUME IInv, RecvEof \/ RecvThrows
    PROVE  IInv'
<1> USE DEF IInv
<1>1. /\ rpc' \in {"stopped", "left"} /\ LastPackage' = LastPackage
      /\ UNCHANGED <<query, shortWrites, size, wpc, package, totalSent, cut, wire,
                     leftToRecv, recvBuffer, header, delivered>>
  BY DEF RecvEof, RecvThrows, Returned, setting, writerVars, LastPackage
<1>2. TypeOK' /\ Shapes' /\ WriterInPackage'
  BY <1>1 DEF TypeOK, Shapes, WriterInPackage, PackageSize
<1>3. ~shortWrites => DeliveredIntact' /\ PartsNotMixed' /\ DeliveredWasSent'
  BY <1>1 DEF DeliveredIntact, PartsNotMixed, DeliveredWasSent, SentWhole, PackageSize
<1> QED
  BY <1>1, <1>2, <1>3 DEF Reading

LEMMA GivesUpIInv ==
    ASSUME IInv, SendThrows \/ AnswerEnds
    PROVE  IInv'
<1> USE DEF IInv
<1>1. /\ wpc' = "closed" /\ LastPackage' = LastPackage
      /\ UNCHANGED <<query, shortWrites, size, package, totalSent, cut, wire, rpc,
                     leftToRecv, recvBuffer, header, delivered>>
  BY DEF SendThrows, AnswerEnds, setting, readerVars, LastPackage
<1>2. TypeOK' /\ Shapes' /\ WriterInPackage'
  BY <1>1 DEF TypeOK, Shapes, WriterInPackage, PackageSize
<1>3. ~shortWrites => DeliveredIntact' /\ PartsNotMixed' /\ DeliveredWasSent'
  BY <1>1 DEF DeliveredIntact, PartsNotMixed, DeliveredWasSent, SentWhole, PackageSize
<1>4. (InStep <=> InStep') /\ (Reading <=> Reading')
  BY <1>1 DEF InStep, turn, Read, places, Reading
<1> QED
  BY <1>1, <1>2, <1>3, <1>4

LEMMA StaysIInv ==
    ASSUME IInv, UNCHANGED vars
    PROVE  IInv'
<1>1. UNCHANGED <<query, shortWrites, size, wpc, package, totalSent, cut, wire, rpc,
                  leftToRecv, recvBuffer, header, delivered>>
  BY DEF vars, setting, writerVars, readerVars
<1> QED
  BY <1>1 DEF IInv, TypeOK, Shapes, WriterInPackage, PackageSize, DeliveredIntact,
              PartsNotMixed, DeliveredWasSent, SentWhole, InStep, turn, Read, places, LastPackage, Reading

LEMMA NextIInv ==
    ASSUME IInv, [Next]_vars
    PROVE  IInv'
<1>1. CASE SendChunk
  BY <1>1, SendIInv
<1>2. CASE SendThrows \/ AnswerEnds
  BY <1>2, GivesUpIInv
<1>3. CASE Recv
  BY <1>3, RecvIInv
<1>4. CASE EmptyPayload
  BY <1>4, EmptyPayloadIInv
<1>5. CASE RecvEof \/ RecvThrows
  BY <1>5, StopsIInv
<1>6. CASE Finished \/ UNCHANGED vars
  BY <1>6, StaysIInv DEF Finished
<1> QED
  BY <1>1, <1>2, <1>3, <1>4, <1>5, <1>6 DEF Next, Reads

(* The reader and the writer are in step in every reachable state. *)
THEOREM Invariance == Spec => []IInv
BY InitIInv, NextIInv, PTL DEF Spec

(* The sizes and counters of both loops stay in their ranges, and no more  *)
(* packages come out than went in (sendBulk, handleProtoBuffRecv).         *)
THEOREM TypeCorrect == Spec => []TypeOK
<1>1. IInv => TypeOK
  BY DEF IInv
<1> QED
  BY <1>1, Invariance, PTL

(* However recv splits and joins the stream, the buffer of the receive     *)
(* loop holds the beginning of one header or one payload, that of the      *)
(* package whose turn it is, and no byte of the part after it.             *)
THEOREM PartsKeptApart == Spec => []PartsNotMixed
<1>1. IInv => PartsNotMixed
  BY DEF IInv, PartsNotMixed
<1> QED
  BY <1>1, Invariance, PTL

(* The packages handed to the consumer are those that were sent, in order, *)
(* none twice and none skipped, if every send takes what it is given.      *)
THEOREM PackagesIntact == Spec => []DeliveredIntact
<1>1. IInv => DeliveredIntact
  BY DEF IInv, DeliveredIntact
<1> QED
  BY <1>1, Invariance, PTL

------------------------------------------------------------------------------
(* The framing implements the pipe of whole packages. *)

(* What the pipe sees of a step in which every send takes what it is given. *)
Sees(putNext, takenNext, closedNext, readingNext) ==
    /\ SentWhole' = putNext
    /\ delivered' = takenNext
    /\ (wpc' = "closed") <=> closedNext
    /\ Reading' <=> readingNext

LEMMA StepsOfPipe ==
    ASSUME ~shortWrites, ~shortWrites',
           \/ Sees(SentWhole, delivered, wpc = "closed", Reading)
           \/ /\ wpc # "closed"
              /\ Sees(SentWhole + 1, delivered, FALSE, Reading)
           \/ /\ Reading /\ Len(delivered) < SentWhole
              /\ \/ Sees(SentWhole, Append(delivered, Len(delivered) + 1), wpc = "closed", TRUE)
                 \/ Sees(SentWhole, Append(delivered, Len(delivered) + 1), wpc = "closed", FALSE)
           \/ /\ wpc # "closed"
              /\ \/ Sees(SentWhole, delivered, TRUE, Reading)
                 \/ Sees(SentWhole + 1, delivered, TRUE, Reading)
           \/ /\ Reading
              /\ Sees(SentWhole, delivered, wpc = "closed", FALSE)
    PROVE  [Pipe!Next]_Pipe!vars
BY DEF Sees, Pipe!Next, Pipe!vars, Pipe!Put, Pipe!Take, Pipe!Close, Pipe!Stop

(* A complete payload is the package taken out of the pipe. *)
LEMMA DeliverTakes ==
    ASSUME IInv, IInv', ~shortWrites, ~shortWrites', Reading,
           NEW bytes, Deliver(bytes),
           UNCHANGED <<size, wpc, package, totalSent>>
    PROVE  [Pipe!Next]_Pipe!vars
<1>1. SentWhole' = SentWhole
  BY DEF SentWhole, PackageSize
<1>2. /\ \/ delivered' = Append(delivered, header)
         \/ delivered' = Append(delivered, 0)
         \/ delivered' = delivered
      /\ delivered \in Seq(0..Packages) /\ header \in 0..Packages
  BY DEF Deliver, IInv, Shapes, TypeOK
<1>3. CASE delivered' = delivered
  <2>1. rpc' = Returned
    <3>1. \A x : Append(delivered, x) # delivered
      BY <1>2
    <3> QED
      BY <1>3, <3>1 DEF Deliver
  <2>2. ~Reading'
    BY <2>1 DEF Reading, Returned
  <2> QED
    BY <1>1, <1>3, <2>2, StepsOfPipe DEF Sees
<1>4. CASE \/ delivered' = Append(delivered, header)
           \/ delivered' = Append(delivered, 0)
  <2>1. Len(delivered') = Len(delivered) + 1 /\ Len(delivered) \in Nat
        /\ DOMAIN delivered' = 1 .. Len(delivered) + 1
    BY <1>2, <1>4
  <2>2. delivered'[Len(delivered) + 1] = Len(delivered) + 1
    <3>1. \A i \in DOMAIN delivered' : delivered'[i] = i
      BY DEF IInv, DeliveredIntact
    <3> QED
      BY <2>1, <3>1
  <2>3. \A x : Append(delivered, x)[Len(delivered) + 1] = x
    BY <1>2
  <2>4. delivered' = Append(delivered, Len(delivered) + 1)
    BY <1>4, <2>2, <2>3
  <2>5. Len(delivered) < SentWhole
    <3>1. Len(delivered') <= SentWhole'
      BY DEF IInv, DeliveredWasSent
    <3>2. SentWhole \in Nat
      BY DEF IInv, TypeOK, SentWhole
    <3> QED
      BY <1>1, <2>1, <3>1, <3>2
  <2>6. \/ Sees(SentWhole, Append(delivered, Len(delivered) + 1), wpc = "closed", TRUE)
        \/ Sees(SentWhole, Append(delivered, Len(delivered) + 1), wpc = "closed", FALSE)
    BY <1>1, <2>4 DEF Sees
  <2> QED
    BY <2>5, <2>6, StepsOfPipe
<1> QED
  BY <1>2, <1>3, <1>4

(* A turn of the send loop puts a package in when it hands over the last   *)
(* of it, and closes the pipe with the last package.                       *)
LEMMA SendPuts ==
    ASSUME IInv, ~shortWrites, ~shortWrites', SendChunk
    PROVE  [Pipe!Next]_Pipe!vars
<1>1. /\ wpc = "send" /\ package \in 1..Packages /\ totalSent \in Nat
      /\ size[package] \in 0..MaxPayload /\ size' = size
      /\ totalSent < PackageSize(package)
  <2>1. /\ package \in 1..Packages /\ totalSent \in Nat /\ size[package] \in 0..MaxPayload
    BY DEF IInv, TypeOK
  <2>2. wpc = "send" /\ size' = size
    BY DEF SendChunk, setting
  <2>3. PackageSize(package) \in Nat
    BY <2>1 DEF PackageSize
  <2> QED
    BY <2>1, <2>2, <2>3 DEF IInv, WriterInPackage
<1>2. delivered' = delivered /\ rpc' = rpc /\ CountUp(sizeToSend)
  BY DEF SendChunk, readerVars, Counted
<1>3. SentWhole = package - 1
  BY <1>1 DEF SentWhole, PackageSize
<1>4. PackageSize(package) \in Nat /\ sizeToSend \in Nat /\ sizeToSend <= PackageSize(package) - totalSent
  BY <1>1 DEF sizeToSend, Smaller, PackageSize
<1>5. CASE totalSent + sizeToSend < PackageSize(package)
  <2>1. totalSent' = totalSent + sizeToSend /\ wpc' = wpc /\ package' = package
    BY <1>2, <1>5 DEF CountUp
  <2>2. PackageSize(package)' = PackageSize(package)
    BY <1>1, <2>1 DEF PackageSize
  <2>3. SentWhole' = SentWhole
    BY <1>3, <1>4, <1>5, <2>1, <2>2 DEF SentWhole
  <2> QED
    BY <1>2, <2>1, <2>3, StepsOfPipe DEF Sees, Reading
<1>6. CASE ~(totalSent + sizeToSend < PackageSize(package)) /\ package < LastPackage
  <2>1. totalSent' = 0 /\ wpc' = wpc /\ package' = package + 1
    BY <1>2, <1>6 DEF CountUp
  <2>2. size[package + 1] \in 0..MaxPayload
    <3>1. package + 1 \in 1..Packages /\ size \in [1..Packages -> 0..MaxPayload]
      BY <1>1, <1>6, LastInRange DEF IInv, TypeOK
    <3> QED
      BY <3>1
  <2>3. PackageSize(package)' = HeaderSize + size[package + 1]
    BY <1>1, <2>1 DEF PackageSize
  <2>4. SentWhole' = SentWhole + 1
    BY <1>1, <1>3, <2>1, <2>2, <2>3 DEF SentWhole
  <2> QED
    BY <1>1, <1>2, <2>1, <2>4, StepsOfPipe DEF Sees, Reading
<1>7. CASE ~(totalSent + sizeToSend < PackageSize(package)) /\ ~(package < LastPackage)
  <2>1. /\ wpc' = IF query THEN "awaits" ELSE "closed"
        /\ totalSent' = PackageSize(package) /\ package' = package
    BY <1>2, <1>7 DEF CountUp
  <2>2. PackageSize(package)' = PackageSize(package)
    BY <1>1, <2>1 DEF PackageSize
  <2>3. SentWhole' = SentWhole + 1
    BY <1>1, <1>3, <2>1, <2>2 DEF SentWhole
  <2> QED
    BY <1>1, <1>2, <2>1, <2>3, StepsOfPipe DEF Sees, Reading
<1> QED
  BY <1>5, <1>6, <1>7

(* Every step of the framing is a step of the pipe, or none. *)
LEMMA StepPipe ==
    ASSUME IInv, IInv', [Next]_vars
    PROVE  [Pipe!Next]_Pipe!vars
<1>1. shortWrites \in BOOLEAN /\ shortWrites' = shortWrites
  BY DEF IInv, TypeOK, Next, Reads, SendChunk, SendThrows, AnswerEnds, Recv, EmptyPayload, RecvEof,
         RecvThrows, Finished, vars, setting
<1>2. CASE shortWrites
  BY <1>1, <1>2 DEF Pipe!vars
<1>3. CASE ~shortWrites
  <2>1. CASE SendChunk
    BY <1>1, <1>3, <2>1, SendPuts
  <2>2. CASE SendThrows \/ AnswerEnds
    <3>1. /\ wpc # "closed" /\ wpc' = "closed"
          /\ UNCHANGED <<size, package, totalSent, rpc, delivered>>
      BY <2>2 DEF SendThrows, AnswerEnds, setting, readerVars
    <3>2. SentWhole' = SentWhole
      BY <3>1 DEF SentWhole, PackageSize
    <3> QED
      BY <1>1, <1>3, <3>1, <3>2, StepsOfPipe DEF Sees, Reading
  <2>3. CASE Recv
    <3>1. PICK n \in RecvSize :
            LET bytes == recvBuffer \o SubSeq(wire, 1, n) IN
            IF n < leftToRecv
              THEN /\ recvBuffer' = bytes
                   /\ leftToRecv' = leftToRecv - n
                   /\ UNCHANGED <<rpc, header, delivered>>
              ELSE IF rpc = "header" THEN StartPayload(bytes)
              ELSE Deliver(bytes)
      BY <2>3 DEF Recv
    <3>2. Reading /\ UNCHANGED <<size, wpc, package, totalSent>>
      BY <2>3 DEF Recv, setting, writerVars
    <3>3. SentWhole' = SentWhole
      BY <3>2 DEF SentWhole, PackageSize
    <3>4. CASE Reading' /\ delivered' = delivered
      BY <1>1, <1>3, <3>2, <3>3, <3>4, StepsOfPipe DEF Sees, Reading
    <3>5. CASE Deliver(recvBuffer \o SubSeq(wire, 1, n))
      BY <1>1, <1>3, <3>2, <3>5, DeliverTakes
    <3> QED
      BY <3>1, <3>2, <3>4, <3>5 DEF StartPayload, Reading
  <2>4. CASE EmptyPayload
    <3>1. /\ rpc = "payload" /\ Deliver(<<>>)
          /\ UNCHANGED <<size, wpc, package, totalSent>>
      BY <2>4 DEF EmptyPayload, setting, writerVars
    <3> QED
      BY <1>1, <1>3, <3>1, DeliverTakes DEF Reading
  <2>5. CASE RecvEof \/ RecvThrows
    <3>1. /\ Reading /\ rpc' \in {"stopped", "left"}
          /\ UNCHANGED <<size, wpc, package, totalSent, delivered>>
      BY <2>5 DEF RecvEof, RecvThrows, Returned, setting, writerVars
    <3>2. SentWhole' = SentWhole
      BY <3>1 DEF SentWhole, PackageSize
    <3> QED
      BY <1>1, <1>3, <3>1, <3>2, StepsOfPipe DEF Sees, Reading
  <2>6. CASE Finished \/ UNCHANGED vars
    <3>1. UNCHANGED <<size, wpc, package, totalSent, rpc, delivered>>
      BY <2>6 DEF Finished, vars, setting, writerVars, readerVars
    <3>2. SentWhole' = SentWhole
      BY <3>1 DEF SentWhole, PackageSize
    <3> QED
      BY <1>1, <1>3, <3>1, <3>2, StepsOfPipe DEF Sees, Reading
  <2> QED
    BY <2>1, <2>2, <2>3, <2>4, <2>5, <2>6 DEF Next, Reads
<1> QED
  BY <1>1, <1>2, <1>3

(* The framing does what a pipe of whole packages may do: a package is     *)
(* taken out only when all of it was put in, in the order it was put in,   *)
(* and never after the reader stopped.                                     *)
THEOREM PipeSteps == Spec => Pipe!Init /\ [][Pipe!Next]_Pipe!vars
<1>1. Init => Pipe!Init
  <2>1. ASSUME Init PROVE SentWhole = 0
    <3>1. size[1] \in 0..MaxPayload
      BY <2>1 DEF Init
    <3> QED
      BY <2>1, <3>1 DEF Init, SentWhole, PackageSize
  <2> QED
    BY <2>1 DEF Init, Pipe!Init, Reading
<1>2. IInv /\ IInv' /\ [Next]_vars => [Pipe!Next]_Pipe!vars
  BY StepPipe
<1> QED
  BY <1>1, <1>2, Invariance, PTL DEF Spec

==============================================================================
