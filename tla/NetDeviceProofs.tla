--------------------------- MODULE NetDeviceProofs ---------------------------
(***************************************************************************)
(* Theorems about NetDevice: a netmask has the length it is given, and a   *)
(* device found is one that was asked for, whatever interfaces there are.  *)
(***************************************************************************)
EXTENDS NetDevice, WellFoundedInduction, TLAPS

-----------------------------------------------------------------------------
(* Extremes.                                                               *)

\* A set of naturals has a least element.
LEMMA LeastExists ==
    ASSUME NEW S, S \subseteq Nat, S # {}
    PROVE  \E m \in S : \A k \in S : m <= k
<1>1. PICK m \in S : \A k \in S : ~(<<k, m>> \in OpToRel(<, Nat))
  BY WFMin, NatLessThanWellFounded
<1>2. ASSUME NEW k \in S PROVE m <= k
  <2>1. ~(k < m)
    BY <1>1 DEF OpToRel
  <2> QED
    BY <2>1
<1> QED
  BY <1>2

\* A set of indices has a largest element.
LEMMA LargestExists ==
    ASSUME NEW n \in Nat, NEW S \in SUBSET (1..n), S # {}
    PROVE  \E m \in S : \A k \in S : k <= m
<1> DEFINE T == {n - k : k \in S}
<1>1. T \subseteq Nat /\ T # {}
  <2>1. \A k \in S : k \in 1..n /\ n - k \in Nat
    OBVIOUS
  <2> QED
    BY <2>1
<1>2. PICK t \in T : \A u \in T : t <= u
  <2> HIDE DEF T
  <2> QED
    BY <1>1, LeastExists
<1>3. PICK m \in S : t = n - m
  OBVIOUS
<1>4. ASSUME NEW k \in S PROVE k <= m
  <2>1. n - m <= n - k
    BY <1>2, <1>3
  <2> QED
    BY <2>1
<1> QED
  BY <1>4

-----------------------------------------------------------------------------
(* Netmasks.                                                               *)

\* A sequence of bytes, as a function on its indices.
Bytes(mask, len) ==
    /\ len \in Nat /\ Len(mask) = len /\ DOMAIN mask = 1..len
    /\ \A i \in 1..len : mask[i] \in 0..255

LEMMA SequenceFacts ==
    ASSUME NEW S, NEW s \in Seq(S)
    PROVE  /\ Len(s) \in Nat /\ DOMAIN s = 1..Len(s)
           /\ \A i \in 1..Len(s) : s[i] \in S
OBVIOUS

\* The bits of a byte, the first one first.
Weights == <<128, 64, 32, 16, 8, 4, 2, 1>>

Bit(b, p) == (b \div Weights[p + 1]) % 2

\* The reference for PrefixLength: of the bits of the mask, the first n are
\* ones and no others.
OnesFirst(mask, n) ==
    \A i \in DOMAIN mask, p \in 0..7 :
      Bit(mask[i], p) = IF 8 * (i - 1) + p < n THEN 1 ELSE 0

\* The bytes that have their ones first, by the number of them.
Mask(n) ==
    CASE n = 0 -> 0   [] n = 1 -> 128 [] n = 2 -> 192 [] n = 3 -> 224
      [] n = 4 -> 240 [] n = 5 -> 248 [] n = 6 -> 252 [] n = 7 -> 254
      [] n = 8 -> 255 [] OTHER -> -1

\* get_netmask knows these bytes, and no other byte.
LEMMA ByteBitsOfMask ==
    ASSUME NEW b \in 0..255
    PROVE  /\ ByteBits(b) \in -1..8
           /\ ByteBits(b) # -1 => b = Mask(ByteBits(b))
           /\ \A n \in 0..8 : b = Mask(n) => ByteBits(b) = n
<1>1. b \div 16 \in 0..15 /\ b % 16 \in 0..15
      /\ b = 16 * (b \div 16) + (b % 16)
  OBVIOUS
<1>2. PICK hi \in 0..15, lo \in 0..15 :
        b \div 16 = hi /\ b % 16 = lo /\ b = 16 * hi + lo
  BY <1>1
<1>3. \A n \in 0..15 : NibbleBits(n) \in -1..4
  BY DEF NibbleBits
<1>4. ByteBits(b) = IF \/ hi # 15 /\ lo # 0
                       \/ NibbleBits(hi) = -1
                       \/ NibbleBits(lo) = -1
                    THEN -1 ELSE NibbleBits(hi) + NibbleBits(lo)
  BY <1>2 DEF ByteBits
<1>5. ByteBits(b) \in -1..8
  BY <1>3, <1>4
<1>6. ByteBits(b) # -1 => b = Mask(ByteBits(b))
  BY <1>2, <1>4 DEF NibbleBits, Mask
<1>7. ASSUME NEW n \in 0..8, b = Mask(n) PROVE ByteBits(b) = n
  BY <1>7 DEF ByteBits, NibbleBits, Mask
<1> QED
  BY <1>5, <1>6, <1>7

\* The bits of these bytes, and that the bits make the byte.
LEMMA MaskBits ==
    ASSUME NEW n \in 0..8, NEW p \in 0..7
    PROVE  Bit(Mask(n), p) = IF p < n THEN 1 ELSE 0
BY DEF Bit, Mask, Weights

LEMMA BitsMakeTheByte ==
    ASSUME NEW b \in 0..255
    PROVE  b = 128 * Bit(b, 0) + 64 * Bit(b, 1) + 32 * Bit(b, 2)
               + 16 * Bit(b, 3) + 8 * Bit(b, 4) + 4 * Bit(b, 5)
               + 2 * Bit(b, 6) + Bit(b, 7)
BY DEF Bit, Weights

\* Two bytes with the same bits are the same.
LEMMA SameBits ==
    ASSUME NEW b \in 0..255, NEW c \in 0..255,
           \A p \in 0..7 : Bit(b, p) = Bit(c, p)
    PROVE  b = c
<1>1. /\ Bit(b, 0) = Bit(c, 0) /\ Bit(b, 1) = Bit(c, 1)
      /\ Bit(b, 2) = Bit(c, 2) /\ Bit(b, 3) = Bit(c, 3)
      /\ Bit(b, 4) = Bit(c, 4) /\ Bit(b, 5) = Bit(c, 5)
      /\ Bit(b, 6) = Bit(c, 6) /\ Bit(b, 7) = Bit(c, 7)
  OBVIOUS
<1> QED
  BY <1>1, BitsMakeTheByte

\* A byte whose first n bits are ones, and no others, is the one of the table.
LEMMA BitsOfMask ==
    ASSUME NEW b \in 0..255, NEW n \in 0..8,
           \A p \in 0..7 : Bit(b, p) = IF p < n THEN 1 ELSE 0
    PROVE  b = Mask(n)
<1>1. Mask(n) \in 0..255
  BY DEF Mask
<1>2. \A p \in 0..7 : Bit(b, p) = Bit(Mask(n), p)
  BY MaskBits
<1> QED
  BY <1>1, <1>2, SameBits

\* Where the first byte that is not full is.
LEMMA LastByteFacts ==
    ASSUME NEW mask, NEW len, Bytes(mask, len), \E i \in DOMAIN mask : mask[i] # 255
    PROVE  /\ LastByte(mask) \in 1..len /\ mask[LastByte(mask)] # 255
           /\ \A j \in 1..(LastByte(mask)-1) : mask[j] = 255
<1> DEFINE S == {i \in DOMAIN mask : mask[i] # 255}
<1>1. S \subseteq Nat /\ S # {}
  BY DEF Bytes
<1>2. PICK i \in S : \A k \in S : i <= k
  <2> HIDE DEF S
  <2> QED
    BY <1>1, LeastExists
<1>3. ASSUME NEW j \in 1..(i-1) PROVE mask[j] = 255
  BY <1>2 DEF Bytes
<1>4. \E k \in DOMAIN mask : mask[k] # 255 /\ \A j \in 1..(k-1) : mask[j] = 255
  BY <1>2, <1>3
<1> QED
  BY <1>4 DEF LastByte, Bytes

LEMMA FullAndEmptyBits ==
    ASSUME NEW p \in 0..7
    PROVE  Bit(255, p) = 1 /\ Bit(0, p) = 0
BY DEF Bit, Weights

\* Full bytes, one of the table and zeros: the length counts the ones.
LEMMA LengthSound ==
    ASSUME NEW mask, NEW len, Bytes(mask, len), PrefixLength(mask) # -1
    PROVE  /\ PrefixLength(mask) \in 0..(8 * len)
           /\ OnesFirst(mask, PrefixLength(mask))
<1>0. /\ len \in Nat /\ Len(mask) = len /\ DOMAIN mask = 1..len
      /\ \A i \in 1..len : mask[i] \in 0..255
  BY DEF Bytes
<1>1. CASE \A i \in DOMAIN mask : mask[i] = 255
  <2>1. PrefixLength(mask) = 8 * len
    BY <1>0, <1>1 DEF PrefixLength
  <2>2. ASSUME NEW i \in 1..len, NEW p \in 0..7
        PROVE  Bit(mask[i], p) = 1
    BY <1>0, <1>1, FullAndEmptyBits
  <2>3. ASSUME NEW i \in 1..len, NEW p \in 0..7
        PROVE  8 * (i - 1) + p < 8 * len
    BY <1>0
  <2> QED
    BY <1>0, <2>1, <2>2, <2>3 DEF OnesFirst
<1>2. CASE \E i \in DOMAIN mask : mask[i] # 255
  <2>0. PICK last \in 1..len : last = LastByte(mask)
    BY <1>2, LastByteFacts
  <2>1. mask[last] # 255 /\ \A j \in 1..(last-1) : mask[j] = 255
    BY <1>2, <2>0, LastByteFacts
  <2>2. /\ \A i \in 1..len : i > last => mask[i] = 0
        /\ ByteBits(mask[last]) # -1
        /\ PrefixLength(mask) = 8 * (last - 1) + ByteBits(mask[last])
    <3>1. PrefixLength(mask) = IF \/ \E i \in DOMAIN mask : i > last /\ mask[i] # 0
                                  \/ ByteBits(mask[last]) = -1
                               THEN -1
                               ELSE 8 * (last - 1) + ByteBits(mask[last])
      BY <1>2, <2>0 DEF PrefixLength
    <3>2. /\ ~\E i \in DOMAIN mask : i > last /\ mask[i] # 0
          /\ ByteBits(mask[last]) # -1
      BY <3>1
    <3> QED
      BY <1>0, <3>1, <3>2
  <2>3. PICK n \in 0..8 : n = ByteBits(mask[last]) /\ mask[last] = Mask(n)
    <3>1. mask[last] \in 0..255
      BY <1>0
    <3>2. /\ ByteBits(mask[last]) \in -1..8
          /\ mask[last] = Mask(ByteBits(mask[last]))
      BY <2>2, <3>1, ByteBitsOfMask
    <3> QED
      BY <2>2, <3>2
  <2>4. n # 8
    <3>1. Mask(8) = 255
      BY DEF Mask
    <3> QED
      BY <2>1, <2>3, <3>1
  <2>5. PrefixLength(mask) = 8 * (last - 1) + n
    BY <2>2, <2>3
  <2>6. ASSUME NEW i \in 1..len, NEW p \in 0..7
        PROVE  Bit(mask[i], p) = IF 8 * (i - 1) + p < 8 * (last - 1) + n
                                 THEN 1 ELSE 0
    <3>1. CASE i < last
      <4>1. Bit(mask[i], p) = 1
        BY <2>1, <3>1, FullAndEmptyBits
      <4>2. 8 * (i - 1) + p < 8 * (last - 1) + n
        BY <3>1
      <4> QED
        BY <4>1, <4>2
    <3>2. CASE i = last
      <4>1. Bit(mask[i], p) = IF p < n THEN 1 ELSE 0
        BY <2>3, <3>2, MaskBits
      <4>2. 8 * (i - 1) + p < 8 * (last - 1) + n <=> p < n
        BY <3>2
      <4> QED
        BY <4>1, <4>2
    <3>3. CASE i > last
      <4>1. Bit(mask[i], p) = 0
        BY <2>2, <3>3, FullAndEmptyBits
      <4>2. ~(8 * (i - 1) + p < 8 * (last - 1) + n)
        BY <2>4, <3>3
      <4> QED
        BY <4>1, <4>2
    <3> QED
      BY <3>1, <3>2, <3>3
  <2>7. 8 * (last - 1) + n \in 0..(8 * len)
    BY <1>0
  <2> QED
    BY <1>0, <2>5, <2>6, <2>7 DEF OnesFirst
<1> QED
  BY <1>1, <1>2

\* All ones and then all zeros: there is only one length it can have.
LEMMA LengthComplete ==
    ASSUME NEW mask, NEW len, Bytes(mask, len), NEW n \in 0..(8 * len),
           OnesFirst(mask, n)
    PROVE  PrefixLength(mask) = n
<1>0. /\ len \in Nat /\ Len(mask) = len /\ DOMAIN mask = 1..len
      /\ \A i \in 1..len : mask[i] \in 0..255
  BY DEF Bytes
<1>z. Mask(0) = 0 /\ Mask(8) = 255 /\ \A k \in 0..7 : Mask(k) # 255
  BY DEF Mask
<1>b. ASSUME NEW i \in 1..len, NEW p \in 0..7
      PROVE  Bit(mask[i], p) = IF 8 * (i - 1) + p < n THEN 1 ELSE 0
  BY <1>0 DEF OnesFirst
<1>1. ASSUME NEW i \in 1..len, NEW k \in 0..8,
             \A p \in 0..7 : 8 * (i - 1) + p < n <=> p < k
      PROVE  mask[i] = Mask(k)
  <2>1. \A p \in 0..7 : Bit(mask[i], p) = IF p < k THEN 1 ELSE 0
    BY <1>b, <1>1
  <2> QED
    BY <1>0, <2>1, BitsOfMask
<1>2. ASSUME NEW i \in 1..len, 8 * i <= n PROVE mask[i] = 255
  <2>1. \A p \in 0..7 : 8 * (i - 1) + p < n <=> p < 8
    BY <1>2
  <2> QED
    BY <2>1, <1>1, <1>z
<1>3. ASSUME NEW i \in 1..len, n <= 8 * (i - 1) PROVE mask[i] = 0
  <2>1. \A p \in 0..7 : 8 * (i - 1) + p < n <=> p < 0
    BY <1>3
  <2> QED
    BY <2>1, <1>1, <1>z
<1>4. CASE n = 8 * len
  <2>1. \A i \in DOMAIN mask : mask[i] = 255
    BY <1>0, <1>2, <1>4
  <2> QED
    BY <1>0, <1>4, <2>1 DEF PrefixLength
<1>5. CASE n < 8 * len
  <2>1. PICK last \in 1..len, r \in 0..7 : n = 8 * (last - 1) + r
    <3>1. n = 8 * (n \div 8) + (n % 8) /\ n \div 8 \in Nat /\ n % 8 \in 0..7
      OBVIOUS
    <3>2. (n \div 8) + 1 \in 1..len
      BY <1>0, <1>5, <3>1
    <3>3. n = 8 * (((n \div 8) + 1) - 1) + (n % 8)
      BY <3>1
    <3> QED
      BY <3>1, <3>2, <3>3
  <2>2. mask[last] = Mask(r)
    <3>1. \A p \in 0..7 : 8 * (last - 1) + p < n <=> p < r
      BY <2>1
    <3> QED
      BY <3>1, <1>1
  <2>3. mask[last] # 255 /\ ByteBits(mask[last]) = r
    <3>1. mask[last] \in 0..255 /\ r \in 0..8
      BY <1>0
    <3> QED
      BY <1>z, <2>2, <3>1, ByteBitsOfMask
  <2>4. \A j \in 1..(last - 1) : mask[j] = 255
    BY <1>0, <1>2, <2>1
  <2>5. \A i \in 1..len : i > last => mask[i] = 0
    BY <1>0, <1>3, <2>1
  <2>6. /\ LastByte(mask) \in 1..len /\ mask[LastByte(mask)] # 255
        /\ \A j \in 1..(LastByte(mask)-1) : mask[j] = 255
    BY <1>0, <2>3, LastByteFacts
  <2>7. LastByte(mask) = last
    BY <2>3, <2>4, <2>6
  <2>8. ~\A i \in DOMAIN mask : mask[i] = 255
    BY <1>0, <2>3
  <2>9. ~\E i \in DOMAIN mask : i > last /\ mask[i] # 0
    BY <1>0, <2>5
  <2>10. PrefixLength(mask) = 8 * (last - 1) + r
    BY <2>3, <2>7, <2>8, <2>9 DEF PrefixLength
  <2> QED
    BY <2>1, <2>10
<1> QED
  BY <1>0, <1>4, <1>5

\* A netmask that gssdp_net_get_host_ip accepts has as many ones as its length
\* says, all of them before the zeros.
THEOREM PrefixLengthSound ==
    ASSUME NEW mask \in Seq(0..255), PrefixLength(mask) # -1
    PROVE  /\ PrefixLength(mask) \in 0..(8 * Len(mask))
           /\ OnesFirst(mask, PrefixLength(mask))
<1>1. Bytes(mask, Len(mask))
  BY SequenceFacts DEF Bytes
<1> QED
  BY <1>1, LengthSound

\* It accepts every mask that is ones and then zeros, and gives the one length
\* that such a mask can have.
THEOREM PrefixLengthComplete ==
    ASSUME NEW mask \in Seq(0..255), NEW n \in 0..(8 * Len(mask)),
           OnesFirst(mask, n)
    PROVE  PrefixLength(mask) = n
<1>1. Bytes(mask, Len(mask))
  BY SequenceFacts DEF Bytes
<1> QED
  BY <1>1, LengthComplete

-----------------------------------------------------------------------------
(* The device.                                                             *)

\* The interface chosen suits, and is prepended if any is, else the first listed.
LEMMA ChosenSuits ==
    ASSUME NEW ifas, NEW device, IsList(ifas),
           \E i \in DOMAIN ifas : Suits(ifas[i], device)
    PROVE  LET i == Chosen(ifas, device)
           IN  /\ i \in DOMAIN ifas /\ Suits(ifas[i], device)
               /\ \/ Prepended(ifas[i])
                  \/ \A j \in DOMAIN ifas :
                       Suits(ifas[j], device) =>
                         ~Prepended(ifas[j]) /\ Chosen(ifas, device) <= j
<1> DEFINE suited == {i \in DOMAIN ifas : Suits(ifas[i], device)}
           front  == {i \in suited : Prepended(ifas[i])}
           back   == suited \ front
<1>1. PICK n \in Nat : DOMAIN ifas = 1..n
  BY DEF IsList
<1>2. /\ front \in SUBSET (1..n) /\ back \subseteq Nat
      /\ front = {} => back # {}
  BY <1>1
<1>3. Chosen(ifas, device) = IF front # {}
                             THEN CHOOSE i \in front : \A j \in front : j <= i
                             ELSE CHOOSE i \in back : \A j \in back : i <= j
  BY DEF Chosen
<1>4. CASE front # {}
  <2>1. \E i \in front : \A j \in front : j <= i
    <3> HIDE DEF front, suited, back
    <3> QED
      BY <1>2, <1>4, LargestExists
  <2>2. Chosen(ifas, device) \in front
    BY <1>3, <1>4, <2>1
  <2> QED
    BY <2>2
<1>5. CASE front = {}
  <2>1. \E i \in back : \A j \in back : i <= j
    <3> HIDE DEF front, suited, back
    <3> QED
      BY <1>2, <1>5, LeastExists
  <2>2. /\ Chosen(ifas, device) \in back
        /\ \A j \in back : Chosen(ifas, device) <= j
    BY <1>3, <1>5, <2>1
  <2> QED
    BY <1>5, <2>2
<1> QED
  BY <1>4, <1>5

\* What init_network_info finds complete is what the application asked for.
THEOREM DeviceFits ==
    ASSUME NEW ifas, NEW given, IsList(ifas), IsDevice(given),
           Complete(NetworkInfo(ifas, given))
    PROVE  FitsRequest(ifas, given, NetworkInfo(ifas, given))
<1> DEFINE asked  == Addressed(given)
           device == NetworkInfo(ifas, given)
<1>1. IsDevice(asked)
  BY DEF IsDevice, Addressed
<1>2. CASE Complete(asked)
  <2>1. device.iface = asked.iface /\ device.addr = asked.addr
    BY <1>1, <1>2 DEF NetworkInfo, IsDevice
  <2> QED
    BY <1>2, <2>1 DEF FitsRequest, GivenAddr
<1>3. CASE ~Complete(asked)
  <2>1. device = GetHostIp(ifas, asked)
    BY <1>3 DEF NetworkInfo
  <2>2. \E i \in DOMAIN ifas : Suits(ifas[i], asked)
    <3>1. SUFFICES ASSUME \A i \in DOMAIN ifas : ~Suits(ifas[i], asked)
                   PROVE  FALSE
      OBVIOUS
    <3>2. /\ device.iface = asked.iface /\ device.mask = asked.mask
          /\ device.addr = GivenAddr(asked)
      BY <1>1, <2>1, <3>1 DEF GetHostIp, IsDevice
    <3> QED
      BY <1>3, <3>2 DEF Complete, GivenAddr
  <2> DEFINE i   == Chosen(ifas, asked)
             ifa == ifas[i]
  <2>3. /\ i \in DOMAIN ifas /\ Suits(ifa, asked)
        /\ \/ Prepended(ifa)
           \/ \A j \in DOMAIN ifas :
                Suits(ifas[j], asked) => ~Prepended(ifas[j]) /\ i <= j
    BY <2>2, ChosenSuits
  <2> HIDE DEF i
  <2>4. /\ device.addr = ifa.addr /\ device.iface = ifa.name
        /\ device.index = ifa.index
        /\ \/ device.mask = asked.mask /\ Matches(device.mask, ifa.addr)
           \/ device.mask = GetNetmask(ifa)
    BY <1>1, <2>1, <2>2 DEF GetHostIp, IsDevice, i
  <2>5. Matches(device.mask, device.addr)
    BY <2>4 DEF Matches, GetNetmask, Complete
  <2>6. /\ ifa.up /\ ~ifa.ptp
        /\ ifa.addr.family = WantedFamily(asked)
        /\ asked.iface \in {NONE, ifa.name}
        /\ GivenAddr(asked) \in {NONE, ifa.addr}
    BY <2>3 DEF Suits, Worthy
  <2>7. ASSUME ifa.loopback, asked.iface = NONE, GivenAddr(asked) = NONE,
               NEW j \in DOMAIN ifas, ifas[j].up, ~ifas[j].ptp,
               ifas[j].addr.family = WantedFamily(asked), ~ifas[j].loopback
        PROVE  ifas[j].addr.family # "v4" /\ i < j
    <3>1. Suits(ifas[j], asked)
      BY <2>7 DEF Suits, Worthy
    <3>2. ~Prepended(ifa)
      BY <2>7 DEF Prepended
    <3>3. ~Prepended(ifas[j]) /\ i <= j
      BY <2>3, <3>1, <3>2
    <3>4. i # j
      BY <2>7
    <3>5. i \in Nat /\ j \in Nat
      BY <2>3 DEF IsList
    <3> QED
      BY <2>7, <3>3, <3>4, <3>5 DEF Prepended
  <2> QED
    BY <2>3, <2>4, <2>5, <2>6, <2>7 DEF FitsRequest
<1> QED
  BY <1>2, <1>3

\* init_network_info finds everything if some interface suits: it never misses
\* one that would do.  The interfaces have names, addresses and masks that are
\* ones and then zeros, and a null pointer is no mask.
THEOREM DeviceFound ==
    ASSUME NEW ifas, NEW given, IsList(ifas), IsDevice(given),
           \E i \in DOMAIN ifas : Suits(ifas[i], Addressed(given)),
           \A i \in DOMAIN ifas :
             /\ ifas[i].name # NONE /\ ifas[i].addr # NONE
             /\ ifas[i].mask \in Seq(0..255)
             /\ \E n \in 0..(8 * Len(ifas[i].mask)) : OnesFirst(ifas[i].mask, n),
           \A net, bits : [net |-> net, bits |-> bits] # NONE
    PROVE  Complete(NetworkInfo(ifas, given))
<1> DEFINE asked  == Addressed(given)
           device == NetworkInfo(ifas, given)
<1>1. IsDevice(asked)
  BY DEF IsDevice, Addressed
<1>2. CASE Complete(asked)
  BY <1>1, <1>2 DEF NetworkInfo, IsDevice, Complete
<1>3. CASE ~Complete(asked)
  <2>1. device = GetHostIp(ifas, asked)
    BY <1>3 DEF NetworkInfo
  <2> DEFINE i   == Chosen(ifas, asked)
             ifa == ifas[i]
  <2>2. i \in DOMAIN ifas
    BY ChosenSuits
  <2> HIDE DEF i
  <2>3. GetNetmask(ifa) # NONE
    <3>1. PICK n \in 0..(8 * Len(ifa.mask)) : OnesFirst(ifa.mask, n)
      BY <2>2
    <3>2. PrefixLength(ifa.mask) = n
      BY <2>2, <3>1, PrefixLengthComplete
    <3>3. PrefixLength(ifa.mask) # -1
      <4>1. n # -1
        BY <3>1
      <4> QED BY <3>2, <4>1
    <3> QED
      BY <3>3 DEF GetNetmask
  <2>4. /\ device.addr = ifa.addr /\ device.iface = ifa.name
        /\ \/ device.mask = asked.mask /\ asked.mask # NONE
           \/ device.mask = GetNetmask(ifa)
    BY <1>1, <2>1 DEF GetHostIp, IsDevice, i
  <2> QED
    BY <2>2, <2>3, <2>4 DEF Complete
<1> QED
  BY <1>2, <1>3

=============================================================================
