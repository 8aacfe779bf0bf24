---------------------------- MODULE ImuRangeProofs ----------------------------
(***************************************************************************)
(* The inertial sensor and the radio receiver: for any motion, readings of *)
(* any width, any axes and any number of restarts, a reading is stored in  *)
(* the range it was taken in; for any buffer and any lengths of the        *)
(* frames, the channels never go back to an older frame.                   *)
(***************************************************************************)
EXTENDS ImuRange, RcReceiver, TLAPS

-----------------------------------------------------------------------------
(* The sequences of writes of the sensor's set-up *)

Write == Byte \X Byte

(* x is s, of n writes, and then t, of m. *)
Joins(x, s, n, t, m) ==
  /\ x \in Seq(Write) /\ Len(x) = n + m
  /\ \A j \in 1 .. n : x[j] = s[j]
  /\ \A j \in n + 1 .. n + m : x[j] = t[j - n]

(* What s \o t is, element by element *)
LEMMA Joined ==
  ASSUME NEW s \in Seq(Write), NEW t \in Seq(Write)
  PROVE  /\ s \o t \in Seq(Write) /\ Len(s \o t) = Len(s) + Len(t)
         /\ \A j \in 1 .. Len(s) + Len(t) :
              (s \o t)[j] = IF j <= Len(s) THEN s[j] ELSE t[j - Len(s)]
BY SMT

LEMMA Banks ==
  ASSUME NEW b \in 0 .. 3
  PROVE  UserBank(b) \in Seq(Write) /\ Len(UserBank(b)) = 1 /\ UserBank(b)[1] = <<127, b>>
BY DEF UserBank, REG_BANK_SEL, Write, Byte

LEMMA Parts ==
  ASSUME NEW s \in Seq(Write), NEW t \in Seq(Write), NEW n \in Nat, NEW m \in Nat,
         Len(s) = n, Len(t) = m
  PROVE  Joins(s \o t, s, n, t, m)
<1>1. s \o t \in Seq(Write) /\ Len(s \o t) = n + m BY Joined
<1>2. \A j \in 1 .. n + m : (s \o t)[j] = IF j <= n THEN s[j] ELSE t[j - n]
  <2>1. 1 .. n + m = 1 .. Len(s) + Len(t) OBVIOUS
  <2> QED BY <2>1, Joined
<1>3. ASSUME NEW j \in 1 .. n PROVE (s \o t)[j] = s[j]
  <2>1. j \in 1 .. n + m /\ j <= n OBVIOUS
  <2> QED BY <2>1, <1>2
<1>4. ASSUME NEW j \in n + 1 .. n + m PROVE (s \o t)[j] = t[j - n]
  <2>1. j \in 1 .. n + m /\ ~(j <= n) OBVIOUS
  <2> QED BY <2>1, <1>2
<1> QED BY <1>1, <1>3, <1>4 DEF Joins

LEMMA FourWrites ==
  ASSUME NEW address \in Byte, NEW data \in Byte, NEW x, x = MagWrite(address, data)
  PROVE  /\ x \in Seq(Write) /\ Len(x) = 5
         /\ x[1] = <<127, 3>> /\ x[2] = <<3, 12>> /\ x[3] = <<4, address>>
         /\ x[4] = <<6, data>> /\ x[5] = <<5, 129>>
<1> DEFINE t == << <<3, 12>>, <<4, address>>, <<6, data>>, <<5, 129>> >>
           u == UserBank(3)
<1>1. t \in Seq(Write) /\ Len(t) = 4 BY SMTT(40) DEF Write, Byte
<1>2. t[1] = <<3, 12>> /\ t[2] = <<4, address>> /\ t[3] = <<6, data>> /\ t[4] = <<5, 129>>
  OBVIOUS
<1>3. x = u \o t
  BY DEF MagWrite, MagBank, I2C_SLV0_ADDR, I2C_SLV0_REG, I2C_SLV0_DO, I2C_SLV0_CTRL
<1>4. u \in Seq(Write) /\ Len(u) = 1 /\ u[1] = <<127, 3>> BY Banks
<1> HIDE DEF t, u
<1>5. Joins(x, u, 1, t, 4) BY <1>1, <1>3, <1>4, Parts
<1> QED BY <1>2, <1>4, <1>5 DEF Joins

LEMMA InitWrites ==
  /\ ImuInit \in Seq(Write) /\ Len(ImuInit) = 3
  /\ ImuInit[1] = <<6, 128>> /\ ImuInit[2] = <<3, 16>> /\ ImuInit[3] = <<6, 1>>
BY DEF ImuInit, PWR_MGMT_1, USER_CTRL, Write, Byte

(* The writes of mag_init *)
SetsUpMag(x) ==
  /\ x \in Seq(Write) /\ Len(x) = 15
  /\ x[1] = <<127, 0>> /\ x[2] = <<3, 32>> /\ x[3] = <<127, 3>>
  /\ x[4] = <<1, 7>> /\ x[5] = <<2, 1>>
  /\ x[6] = <<127, 3>> /\ x[7] = <<3, 12>> /\ x[8] = <<4, 50>>
  /\ x[9] = <<6, 1>> /\ x[10] = <<5, 129>>
  /\ x[11] = <<127, 3>> /\ x[12] = <<3, 12>> /\ x[13] = <<4, 49>>
  /\ x[14] = <<6, 8>> /\ x[15] = <<5, 129>>

LEMMA MagWrites == SetsUpMag(MagInit)
<1> DEFINE x == MagInit
<1> DEFINE a == UserBank(0)   b == << <<3, 32>> >>   c == UserBank(3)
           d == << <<1, 7>>, <<2, 1>> >>   e == MagWrite(50, 1)   f == MagWrite(49, 8)
           ab == a \o b   abc == ab \o c   abcd == abc \o d   abcde == abcd \o e
<1>1. a \in Seq(Write) /\ Len(a) = 1 /\ a[1] = <<127, 0>> BY Banks
<1>2. b \in Seq(Write) /\ Len(b) = 1 /\ b[1] = <<3, 32>> BY DEF Write, Byte
<1>3. c \in Seq(Write) /\ Len(c) = 1 /\ c[1] = <<127, 3>> BY Banks
<1>4. d \in Seq(Write) /\ Len(d) = 2 /\ d[1] = <<1, 7>> /\ d[2] = <<2, 1>> BY DEF Write, Byte
<1>5. /\ e \in Seq(Write) /\ Len(e) = 5
      /\ e[1] = <<127, 3>> /\ e[2] = <<3, 12>> /\ e[3] = <<4, 50>>
      /\ e[4] = <<6, 1>> /\ e[5] = <<5, 129>>
  <2>1. 50 \in Byte /\ 1 \in Byte BY DEF Byte
  <2> HIDE DEF e
  <2>2. e = MagWrite(50, 1) BY DEF e
  <2> QED BY <2>1, <2>2, FourWrites
<1>6. /\ f \in Seq(Write) /\ Len(f) = 5
      /\ f[1] = <<127, 3>> /\ f[2] = <<3, 12>> /\ f[3] = <<4, 49>>
      /\ f[4] = <<6, 8>> /\ f[5] = <<5, 129>>
  <2>1. 49 \in Byte /\ 8 \in Byte BY DEF Byte
  <2> HIDE DEF f
  <2>2. f = MagWrite(49, 8) BY DEF f
  <2> QED BY <2>1, <2>2, FourWrites
<1>7. x = abcde \o f
  BY DEF MagInit, MagBank, USER_CTRL, I2C_MST_CTRL, I2C_MST_DELAY_CTRL, MAG_CNTL2, MAG_CNTL3
<1> HIDE DEF a, b, c, d, e, f, x
<1>8. Joins(ab, a, 1, b, 1) BY <1>1, <1>2, Parts
<1>9. ab \in Seq(Write) /\ Len(ab) = 2 BY <1>8 DEF Joins
<1> HIDE DEF ab
<1>10. Joins(abc, ab, 2, c, 1) BY <1>3, <1>9, Parts
<1>11. abc \in Seq(Write) /\ Len(abc) = 3 BY <1>10 DEF Joins
<1> HIDE DEF abc
<1>12. Joins(abcd, abc, 3, d, 2) BY <1>4, <1>11, Parts
<1>13. abcd \in Seq(Write) /\ Len(abcd) = 5 BY <1>12 DEF Joins
<1> HIDE DEF abcd
<1>14. Joins(abcde, abcd, 5, e, 5) BY <1>5, <1>13, Parts, ZenonT(60)
<1>15. abcde \in Seq(Write) /\ Len(abcde) = 10 BY <1>14 DEF Joins
<1> HIDE DEF abcde
<1>16. Joins(x, abcde, 10, f, 5)
  <2>1. Joins(abcde \o f, abcde, 10, f, 5) BY <1>6, <1>15, Parts, ZenonT(60)
  <2> QED BY <1>7, <2>1
<1>17. ab[1] = a[1] /\ ab[2] = b[1] BY <1>8 DEF Joins
<1>18. abc[1] = ab[1] /\ abc[2] = ab[2] /\ abc[3] = c[1] BY <1>10 DEF Joins
<1>19. /\ abcd[1] = abc[1] /\ abcd[2] = abc[2] /\ abcd[3] = abc[3]
       /\ abcd[4] = d[1] /\ abcd[5] = d[2]
  BY <1>12 DEF Joins
<1>20. /\ \A j \in 1 .. 5 : abcde[j] = abcd[j]
       /\ abcde[6] = e[1] /\ abcde[7] = e[2] /\ abcde[8] = e[3] /\ abcde[9] = e[4] /\ abcde[10] = e[5]
  BY <1>14 DEF Joins
<1>21. /\ \A j \in 1 .. 10 : x[j] = abcde[j]
       /\ x[11] = f[1] /\ x[12] = f[2] /\ x[13] = f[3] /\ x[14] = f[4] /\ x[15] = f[5]
       /\ x \in Seq(Write) /\ Len(x) = 15
  BY <1>16 DEF Joins
<1>22. /\ x[1] = a[1] /\ x[2] = b[1] /\ x[3] = c[1] /\ x[4] = d[1] /\ x[5] = d[2]
       /\ x[6] = e[1] /\ x[7] = e[2] /\ x[8] = e[3] /\ x[9] = e[4] /\ x[10] = e[5]
  BY <1>17, <1>18, <1>19, <1>20, <1>21
<1>23. x[1] = <<127, 0>> /\ x[2] = <<3, 32>> /\ x[3] = <<127, 3>>
  BY <1>1, <1>2, <1>3, <1>22
<1>24. x[4] = <<1, 7>> /\ x[5] = <<2, 1>> BY <1>4, <1>22
<1>25. /\ x[6] = <<127, 3>> /\ x[7] = <<3, 12>> /\ x[8] = <<4, 50>>
       /\ x[9] = <<6, 1>> /\ x[10] = <<5, 129>>
  BY <1>5, <1>22
<1>26. /\ x[11] = <<127, 3>> /\ x[12] = <<3, 12>> /\ x[13] = <<4, 49>>
       /\ x[14] = <<6, 8>> /\ x[15] = <<5, 129>>
  BY <1>6, <1>21
<1>27. SetsUpMag(x) BY <1>21, <1>23, <1>24, <1>25, <1>26 DEF SetsUpMag
<1> QED BY <1>27 DEF x

LEMMA CheckWrites ==
  ASSUME NEW x, x = CheckImu
  PROVE  /\ x \in Seq(Write) /\ Len(x) = 6
         /\ x[1] = <<127, 0>> /\ x[2] = <<127, 3>> /\ x[3] = <<3, 140>>
         /\ x[4] = <<4, 0>> /\ x[5] = <<5, 130>> /\ x[6] = <<127, 0>>
<1> DEFINE a == UserBank(0)   b == UserBank(3)   c == << <<3, 140>>, <<4, 0>>, <<5, 130>> >>
           bc == b \o c   bca == bc \o a
<1>1. a \in Seq(Write) /\ Len(a) = 1 /\ a[1] = <<127, 0>> BY Banks
<1>2. b \in Seq(Write) /\ Len(b) = 1 /\ b[1] = <<127, 3>> BY Banks
<1>3. /\ c \in Seq(Write) /\ Len(c) = 3
      /\ c[1] = <<3, 140>> /\ c[2] = <<4, 0>> /\ c[3] = <<5, 130>>
  BY DEF Write, Byte
<1>4. x = a \o bca
  BY DEF CheckImu, MagRead, MagBank, I2C_SLV0_ADDR, I2C_SLV0_REG, I2C_SLV0_CTRL, MAG_WAI1
<1> HIDE DEF a, b, c
<1>5. Joins(bc, b, 1, c, 3) BY <1>2, <1>3, Parts, ZenonT(60)
<1>6. bc \in Seq(Write) /\ Len(bc) = 4 BY <1>5 DEF Joins
<1> HIDE DEF bc
<1>7. Joins(bca, bc, 4, a, 1) BY <1>1, <1>6, Parts
<1>8. bca \in Seq(Write) /\ Len(bca) = 5 BY <1>7 DEF Joins
<1> HIDE DEF bca
<1>9. Joins(x, a, 1, bca, 5) BY <1>1, <1>4, <1>8, Parts
<1>10. bc[1] = b[1] /\ bc[2] = c[1] /\ bc[3] = c[2] /\ bc[4] = c[3] BY <1>5 DEF Joins
<1>11. bca[1] = bc[1] /\ bca[2] = bc[2] /\ bca[3] = bc[3] /\ bca[4] = bc[4] /\ bca[5] = a[1]
  BY <1>7 DEF Joins
<1>12. /\ x \in Seq(Write) /\ Len(x) = 6 /\ x[1] = a[1]
       /\ x[2] = bca[1] /\ x[3] = bca[2] /\ x[4] = bca[3] /\ x[5] = bca[4] /\ x[6] = bca[5]
  BY <1>9 DEF Joins
<1> QED BY <1>1, <1>2, <1>3, <1>10, <1>11, <1>12

(* The set-up, write by write. *)
LEMMA SetupWrites ==
  /\ Len(Setup) = 24
  /\ Setup[1] = <<6, 128>> /\ Setup[2] = <<3, 16>> /\ Setup[3] = <<6, 1>>
  /\ Setup[4] = <<127, 0>> /\ Setup[5] = <<3, 32>>
  /\ Setup[6] = <<127, 3>> /\ Setup[7] = <<1, 7>> /\ Setup[8] = <<2, 1>>
  /\ Setup[9] = <<127, 3>> /\ Setup[10] = <<3, 12>> /\ Setup[11] = <<4, 50>>
  /\ Setup[12] = <<6, 1>> /\ Setup[13] = <<5, 129>>
  /\ Setup[14] = <<127, 3>> /\ Setup[15] = <<3, 12>> /\ Setup[16] = <<4, 49>>
  /\ Setup[17] = <<6, 8>> /\ Setup[18] = <<5, 129>>
  /\ Setup[19] = <<127, 0>> /\ Setup[20] = <<127, 3>> /\ Setup[21] = <<3, 140>>
  /\ Setup[22] = <<4, 0>> /\ Setup[23] = <<5, 130>> /\ Setup[24] = <<127, 0>>
<1> DEFINE a == ImuInit   b == MagInit   c == CheckImu   ab == a \o b   x == ab \o c
<1>1. /\ a \in Seq(Write) /\ Len(a) = 3
      /\ a[1] = <<6, 128>> /\ a[2] = <<3, 16>> /\ a[3] = <<6, 1>>
  BY InitWrites
<1>2. Setup = x BY DEF Setup
<1>3. b = MagInit /\ c = CheckImu OBVIOUS
<1> HIDE DEF a, b, c
<1>4. SetsUpMag(b) BY <1>3, MagWrites
<1>4a. b \in Seq(Write) /\ Len(b) = 15 BY <1>4 DEF SetsUpMag
<1>5. c \in Seq(Write) /\ Len(c) = 6 BY <1>3, CheckWrites
<1>6. Joins(ab, a, 3, b, 15) BY <1>1, <1>4a, Parts, ZenonT(60)
<1>7. ab \in Seq(Write) /\ Len(ab) = 18 BY <1>6 DEF Joins
<1> HIDE DEF ab
<1>8. Joins(x, ab, 18, c, 6) BY <1>5, <1>7, Parts
<1> HIDE DEF x
<1>9. /\ ab[1] = a[1] /\ ab[2] = a[2] /\ ab[3] = a[3]
      /\ \A j \in 4 .. 18 : ab[j] = b[j - 3]
  BY <1>6 DEF Joins
<1>10. /\ \A j \in 1 .. 18 : x[j] = ab[j]
       /\ \A j \in 19 .. 24 : x[j] = c[j - 18]
       /\ Len(x) = 24
  BY <1>8 DEF Joins
<1>11. x[1] = a[1] /\ x[2] = a[2] /\ x[3] = a[3] BY <1>9, <1>10
<1>12. /\ x[4] = b[1] /\ x[5] = b[2] /\ x[6] = b[3] /\ x[7] = b[4] /\ x[8] = b[5]
       /\ x[9] = b[6] /\ x[10] = b[7] /\ x[11] = b[8] /\ x[12] = b[9] /\ x[13] = b[10]
       /\ x[14] = b[11] /\ x[15] = b[12] /\ x[16] = b[13] /\ x[17] = b[14] /\ x[18] = b[15]
  BY <1>9, <1>10
<1>13. /\ x[19] = c[1] /\ x[20] = c[2] /\ x[21] = c[3] /\ x[22] = c[4] /\ x[23] = c[5] /\ x[24] = c[6]
  BY <1>10
<1>14. /\ b[1] = <<127, 0>> /\ b[2] = <<3, 32>> /\ b[3] = <<127, 3>>
       /\ b[4] = <<1, 7>> /\ b[5] = <<2, 1>>
       /\ b[6] = <<127, 3>> /\ b[7] = <<3, 12>> /\ b[8] = <<4, 50>>
       /\ b[9] = <<6, 1>> /\ b[10] = <<5, 129>>
       /\ b[11] = <<127, 3>> /\ b[12] = <<3, 12>> /\ b[13] = <<4, 49>>
       /\ b[14] = <<6, 8>> /\ b[15] = <<5, 129>>
  BY <1>4 DEF SetsUpMag
<1>15. /\ c[1] = <<127, 0>> /\ c[2] = <<127, 3>> /\ c[3] = <<3, 140>>
       /\ c[4] = <<4, 0>> /\ c[5] = <<5, 130>> /\ c[6] = <<127, 0>>
  BY <1>3, CheckWrites
<1> QED BY <1>1, <1>2, <1>10, <1>11, <1>12, <1>13, <1>14, <1>15

-----------------------------------------------------------------------------
(* What the proofs need of each write of the set-up. *)
LEMMA SetupWriteIs ==
  ASSUME NEW n \in 1 .. 24, NEW a, NEW v, a = Setup[n][1], v = Setup[n][2]
  PROVE  /\ a \in Byte /\ v \in Byte /\ a # ACCEL_CONFIG
         /\ a = 127 <=> n \in {4, 6, 9, 14, 19, 20, 24}
         /\ n \in {4, 19, 24} => v = 0
         /\ n \in {6, 9, 14, 20} => v = 3
         /\ n = 1 => a = 6 /\ v = 128
         /\ a = 6 /\ v >= 128 => n = 1
         /\ n = 5 => a = 3 /\ v = 32
         /\ a = 1 <=> n = 7
         /\ n = 7 => v = 7
         /\ a = 2 <=> n = 8
         /\ n = 8 => v = 1
         /\ n = 21 => a = 3 /\ v = 140
         /\ n \in {22, 23} => a \in {4, 5}
<1>1. CASE n \in 1 .. 8
  <2>1. CASE n = 1 BY <2>1, SetupWrites DEF Byte, ACCEL_CONFIG
  <2>2. CASE n = 2 BY <2>2, SetupWrites DEF Byte, ACCEL_CONFIG
  <2>3. CASE n = 3 BY <2>3, SetupWrites DEF Byte, ACCEL_CONFIG
  <2>4. CASE n = 4 BY <2>4, SetupWrites DEF Byte, ACCEL_CONFIG
  <2>5. CASE n = 5 BY <2>5, SetupWrites DEF Byte, ACCEL_CONFIG
  <2>6. CASE n = 6 BY <2>6, SetupWrites DEF Byte, ACCEL_CONFIG
  <2>7. CASE n = 7 BY <2>7, SetupWrites DEF Byte, ACCEL_CONFIG
  <2>8. CASE n = 8 BY <2>8, SetupWrites DEF Byte, ACCEL_CONFIG
  <2> QED BY <1>1, <2>1, <2>2, <2>3, <2>4, <2>5, <2>6, <2>7, <2>8
<1>2. CASE n \in 9 .. 16
  <2>1. CASE n = 9 BY <2>1, SetupWrites DEF Byte, ACCEL_CONFIG
  <2>2. CASE n = 10 BY <2>2, SetupWrites DEF Byte, ACCEL_CONFIG
  <2>3. CASE n = 11 BY <2>3, SetupWrites DEF Byte, ACCEL_CONFIG
  <2>4. CASE n = 12 BY <2>4, SetupWrites DEF Byte, ACCEL_CONFIG
  <2>5. CASE n = 13 BY <2>5, SetupWrites DEF Byte, ACCEL_CONFIG
  <2>6. CASE n = 14 BY <2>6, SetupWrites DEF Byte, ACCEL_CONFIG
  <2>7. CASE n = 15 BY <2>7, SetupWrites DEF Byte, ACCEL_CONFIG
  <2>8. CASE n = 16 BY <2>8, SetupWrites DEF Byte, ACCEL_CONFIG
  <2> QED BY <1>2, <2>1, <2>2, <2>3, <2>4, <2>5, <2>6, <2>7, <2>8
<1>3. CASE n \in 17 .. 24
  <2>1. CASE n = 17 BY <2>1, SetupWrites DEF Byte, ACCEL_CONFIG
  <2>2. CASE n = 18 BY <2>2, SetupWrites DEF Byte, ACCEL_CONFIG
  <2>3. CASE n = 19 BY <2>3, SetupWrites DEF Byte, ACCEL_CONFIG
  <2>4. CASE n = 20 BY <2>4, SetupWrites DEF Byte, ACCEL_CONFIG
  <2>5. CASE n = 21 BY <2>5, SetupWrites DEF Byte, ACCEL_CONFIG
  <2>6. CASE n = 22 BY <2>6, SetupWrites DEF Byte, ACCEL_CONFIG
  <2>7. CASE n = 23 BY <2>7, SetupWrites DEF Byte, ACCEL_CONFIG
  <2>8. CASE n = 24 BY <2>8, SetupWrites DEF Byte, ACCEL_CONFIG
  <2> QED BY <1>3, <2>1, <2>2, <2>3, <2>4, <2>5, <2>6, <2>7, <2>8
<1> QED BY <1>1, <1>2, <1>3

-----------------------------------------------------------------------------
(* Ranges and readings *)

LEMMA Powers == 2 ^ 0 = 1 /\ 2 ^ 1 = 2 /\ 2 ^ 2 = 4 /\ 2 ^ 3 = 8
OBVIOUS

(* A reading in the range o is the motion rounded down to its steps. *)
LEMMA Divided ==
  ASSUME NEW m \in Int, NEW o \in FsSel
  PROVE  /\ 2 ^ o \in Nat /\ m \div 2 ^ o \in Int
         /\ (m \div 2 ^ o) * 2 ^ o <= m /\ m < (m \div 2 ^ o) * 2 ^ o + 2 ^ o
<1>1. CASE o = 0 BY <1>1, Powers
<1>2. CASE o = 1 BY <1>2, Powers
<1>3. CASE o = 2 BY <1>3, Powers
<1>4. CASE o = 3 BY <1>4, Powers
<1> QED BY <1>1, <1>2, <1>3, <1>4 DEF FsSel, FS_SEL_MIN, FS_SEL_MAX

(* The multiplier is the range's step, without what is behind the point. *)
LEMMA Multiplied ==
  ASSUME NEW s \in Sensor, fs_sel[s] \in FsSel
  PROVE  /\ Multiplier(s) \in Nat
         /\ \E d \in Nat \ {0} : /\ RAW_RANGE = 2 ^ fs_sel[s] * d
                               /\ Multiplier(s) * d <= MinRange[s]
                               /\ MinRange[s] < Multiplier(s) * d + d
<1> DEFINE o == fs_sel[s]   p == 2 ^ o   d == RAW_RANGE \div p   n == MinRange[s]
<1>1. RAW_RANGE \in Nat \ {0} /\ RAW_RANGE % 8 = 0 /\ n \in Nat \ {0} BY ImuAssumption
<1>2. p \in {1, 2, 4, 8}
  <2>1. o \in {0, 1, 2, 3} BY DEF FsSel, FS_SEL_MIN, FS_SEL_MAX
  <2> HIDE DEF o
  <2>2. CASE o = 0 BY <2>2, Powers
  <2>3. CASE o = 1 BY <2>3, Powers
  <2>4. CASE o = 2 BY <2>4, Powers
  <2>5. CASE o = 3 BY <2>5, Powers
  <2> QED BY <2>1, <2>2, <2>3, <2>4, <2>5
<1> HIDE DEF p
<1>3. d \in Nat \ {0} /\ RAW_RANGE = p * d
  <2>1. CASE p = 1 BY <1>1, <2>1
  <2>2. CASE p = 2 BY <1>1, <2>2
  <2>3. CASE p = 4 BY <1>1, <2>3
  <2>4. CASE p = 8 BY <1>1, <2>4
  <2> QED BY <1>2, <2>1, <2>2, <2>3, <2>4
<1>4. Multiplier(s) = n \div d BY DEF Multiplier, p
<1> HIDE DEF d, n
<1>5. n \div d \in Nat /\ (n \div d) * d <= n /\ n < (n \div d) * d + d BY <1>1, <1>3
<1> QED BY <1>3, <1>4, <1>5 DEF p, n

(* How far a reading that was rounded down, times a multiplier that was     *)
(* rounded down, is from the motion.                                       *)
LEMMA Rounded ==
  ASSUME NEW m \in Int, NEW q \in Int, NEW p \in Nat, NEW d \in Nat \ {0},
         NEW n \in Nat \ {0}, NEW f \in Nat,
         q * p <= m, m < q * p + p, f * d <= n, n < f * d + d
  PROVE  ABS((q * f) * (p * d) - m * n) < p * n + ABS(q) * (p * d)
<1> DEFINE e == m - q * p   g == n - f * d
<1>1. e \in Nat /\ e < p /\ m = q * p + e
  <2>1. q * p \in Int OBVIOUS
  <2> QED BY <2>1
<1>2. g \in Nat /\ g < d /\ n = f * d + g
  <2>1. f * d \in Int OBVIOUS
  <2> QED BY <2>1
<1> HIDE DEF e, g
<1>3. e * n \in Nat /\ e * n < p * n BY <1>1
<1>4. m * n = (q * p) * n + e * n BY <1>1
<1>5. (q * p) * n = (q * p) * (f * d) + (q * p) * g BY <1>2
<1>6. (q * f) * (p * d) = (q * p) * (f * d) OBVIOUS
<1> DEFINE a == (q * p) * (f * d)   b == (q * p) * g   c == e * n
<1>7. a \in Int /\ b \in Int /\ c \in Nat BY <1>2, <1>3
<1>8. (q * f) * (p * d) - m * n = -(b + c)
  <2>1. m * n = a + b + c BY <1>4, <1>5
  <2>2. (q * f) * (p * d) = a BY <1>6
  <2>3. m * n \in Int OBVIOUS
  <2> HIDE DEF a, b, c
  <2> QED BY <1>7, <2>1, <2>2, <2>3
<1>9. p * g \in Nat /\ p * g <= p * d BY <1>2
<1>10. b = q * (p * g) BY <1>2
<1>11. CASE q >= 0
  <2>1. b >= 0 /\ b <= q * (p * d) BY <1>9, <1>10, <1>11
  <2>2. ABS(q) = q BY <1>11 DEF ABS
  <2>3. q * (p * d) \in Int /\ p * n \in Int OBVIOUS
  <2>4. c < p * n BY <1>3
  <2> HIDE DEF b, c
  <2>5. ABS(-(b + c)) = b + c BY <1>7, <2>1 DEF ABS
  <2> QED BY <1>7, <1>8, <2>1, <2>2, <2>3, <2>4, <2>5
<1>12. CASE q < 0
  <2>1. b <= 0 /\ b >= -((-q) * (p * d))
    <3>1. (-q) \in Nat BY <1>12
    <3>2. (-q) * (p * g) >= 0 /\ (-q) * (p * g) <= (-q) * (p * d) BY <1>9, <3>1
    <3>3. b = -((-q) * (p * g)) BY <1>9, <1>10
    <3>4. (-q) * (p * g) \in Int /\ (-q) * (p * d) \in Int BY <1>9
    <3> HIDE DEF b
    <3> QED BY <3>2, <3>3, <3>4
  <2>2. ABS(q) = -q BY <1>12 DEF ABS
  <2>3. (-q) * (p * d) \in Int /\ p * n \in Nat OBVIOUS
  <2>4. c < p * n /\ c >= 0 BY <1>3
  <2> HIDE DEF b, c
  <2>5. -(b + c) < p * n + (-q) * (p * d) /\ b + c < p * n + (-q) * (p * d)
    BY <1>7, <2>1, <2>3, <2>4
  <2>6. ABS(-(b + c)) \in {-(b + c), b + c} BY <1>7 DEF ABS
  <2> QED BY <1>7, <1>8, <2>2, <2>5, <2>6
<1> QED BY <1>11, <1>12

LEMMA ClampIs ==
  ASSUME NEW x \in Int
  PROVE  /\ Clamp(x) \in -RAW_RANGE .. RAW_RANGE - 1
         /\ ~AtLimit(Clamp(x)) => Clamp(x) = x
BY ImuAssumption DEF Clamp, AtLimit

(* The configuration of a range is read back as that range. *)
LEMMA ConfigIs ==
  ASSUME NEW sel \in FsSel
  PROVE  Config(sel) \in Byte /\ (Config(sel) \div 2) % 4 = sel
<1>1. CASE sel = 0 BY <1>1 DEF Config, Byte
<1>2. CASE sel = 1 BY <1>2 DEF Config, Byte
<1>3. CASE sel = 2 BY <1>3 DEF Config, Byte
<1>4. CASE sel = 3 BY <1>4 DEF Config, Byte
<1> QED BY <1>1, <1>2, <1>3, <1>4 DEF FsSel, FS_SEL_MIN, FS_SEL_MAX

LEMMA RegisterIs ==
  /\ <<0, USER_CTRL>> \in Register /\ <<3, I2C_MST_CTRL>> \in Register
  /\ <<3, I2C_MST_DELAY_CTRL>> \in Register /\ <<3, I2C_SLV0_ADDR>> \in Register
  /\ \A s \in Sensor : <<2, ConfigOf[s]>> \in Register
BY DEF Register, Sensor, ConfigOf, USER_CTRL, PWR_MGMT_1, ACCEL_CONFIG, GYRO_CONFIG_1, I2C_MST_CTRL,
   I2C_MST_DELAY_CTRL, I2C_SLV0_ADDR, I2C_SLV0_DO

LEMMA ConfiguredIs ==
  ASSUME TypeOK, NEW s \in Sensor
  PROVE  Configured(s) \in FsSel
<1>1. registers[<<2, ConfigOf[s]>>] \in 0 .. 255 BY RegisterIs DEF TypeOK, Byte
<1> QED BY <1>1 DEF Configured, FsSel, FS_SEL_MIN, FS_SEL_MAX

LEMMA OutputIs ==
  ASSUME TypeOK
  PROVE  Output \in Reading
<1> SUFFICES ASSUME NEW s \in Sensor, NEW a \in Axis
             PROVE  Clamp(motion[s][a] \div 2 ^ output[s]) \in -RAW_RANGE .. RAW_RANGE - 1
  BY DEF Output, Reading
<1>1. motion[s][a] \in Int /\ output[s] \in FsSel
  <2>1. Level \subseteq Int BY ImuAssumption
  <2>2. motion[s][a] \in Level /\ output[s] \in FsSel BY ZenonT(40) DEF TypeOK
  <2> QED BY <2>1, <2>2
<1> QED BY <1>1, Divided, ClampIs

LEMMA ZeroIs == Zero \in Reading
BY ImuAssumption DEF Zero, Reading

(* What a byte that is written does: the bank is selected, or a register of *)
(* the selected bank is set.                                               *)
LEMMA Selected ==
  ASSUME NEW v, WriteByte(REG_BANK_SEL, v)
  PROVE  bank' = v /\ registers' = registers
BY DEF WriteByte

LEMMA Stored ==
  ASSUME TypeOK, NEW a \in Byte, NEW v \in Byte, a # 127, ~(a = 6 /\ v >= 128), WriteByte(a, v)
  PROVE  /\ bank' = bank /\ registers' \in [Register -> Byte]
         /\ \A r \in Register : registers'[r] = IF r = <<bank, a>> THEN v ELSE registers[r]
BY DEF WriteByte, REG_BANK_SEL, PWR_MGMT_1, TypeOK

-----------------------------------------------------------------------------
(* The inductive invariant *)

(* What each write of the set-up finds: from the fifth on, the bank it is    *)
(* meant for and the registers the ones before it have set.                *)
SetupInv ==
  pc = "setup" =>
    /\ k \in 1 .. 24
    /\ fs_sel = [s \in Sensor |-> FS_SEL_MIN]
    /\ k >= 5 => bank = IF k \in {5, 6, 20} THEN 0 ELSE 3
    /\ k >= 6 => registers[<<0, USER_CTRL>>] = 32
    /\ k >= 8 => registers[<<3, I2C_MST_CTRL>>] = 7
    /\ k >= 9 => registers[<<3, I2C_MST_DELAY_CTRL>>] = 1
    /\ k >= 22 => registers[<<3, I2C_SLV0_ADDR>>] = 140

ImuRead == [type |-> "read", bank |-> 0, address |-> 45, value |-> 0]
RangeWrite(s) ==
  [type |-> "write", bank |-> 2, address |-> ConfigOf[s], value |-> Config(fs_sel[s])]

(* A request on the bus is the read, or the write of the range that the     *)
(* process has just stored; no sample is taken while it waits.             *)
BusInv ==
  /\ pc = "adjust" => k \in 1 .. 2
  /\ pc \in {"bus", "transfer"} =>
       \/ request = ImuRead
       \/ k \in 1 .. 2 /\ request = RangeWrite(Order[k])
  /\ pc = "transfer" => bank = request.bank
  /\ pc \in {"bus", "transfer", "store", "adjust"} => ~sampled

(* The range of s is stored, and on its way to the sensor. *)
Writing(s) == pc \in {"bus", "transfer"} /\ request.type = "write" /\ s = Order[k]
(* The last sample is one that a read will take. *)
ToBeRead ==
  \/ pc \in {"gate", "store"}
  \/ pc \in {"bus", "transfer"} /\ request.type = "read"
  \/ pc = "delay" /\ sampled

(* Unless a reset has missed it, the range that is stored is that of the    *)
(* sensor's register, or its write is on its way; the sample that is read  *)
(* is of the same range, and a reading that was taken is that sample.      *)
RangeInv ==
  ~(pc = "setup" /\ k = 1) =>
    /\ \A s \in Sensor \ missed : ~Writing(s) => Configured(s) = fs_sel[s]
    /\ ToBeRead => \A s \in Sensor \ missed : output[s] = fs_sel[s]
    /\ pc = "store" => raw_data = Output

Inv == TypeOK /\ SetupInv /\ BusInv /\ RangeInv /\ MagReady

LEMMA Orders == Len(Order) = 2 /\ \A n \in 1 .. 2 : Order[n] \in Sensor
BY DEF Order, Sensor

LEMMA InitInv == Init => Inv
<1> SUFFICES ASSUME Init PROVE Inv
  OBVIOUS
<1>1. registers \in [Register -> Byte] BY DEF Init, PowerUp, Byte
<1>2. /\ raw_data \in Reading /\ measured \in [Sensor -> [Axis -> Int]]
      /\ output \in [Sensor -> FsSel] /\ fs_sel \in [Sensor -> FsSel]
      /\ request \in [type : {"none", "read", "write"}, bank : 0 .. 3, address : Byte, value : Byte]
  BY ZeroIs DEF Init, Zero, FsSel, FS_SEL_MIN, FS_SEL_MAX, NoRequest, Byte
<1>3. bank \in 0 .. 3 /\ k \in Nat /\ restarts \in 0 .. MaxRestart
  BY ImuAssumption DEF Init
<1>3a. /\ pc \in {"setup", "gate", "bus", "transfer", "store", "adjust", "delay"}
      /\ motion \in [Sensor -> [Axis -> Level]]
  BY DEF Init
<1>3b. steady \in BOOLEAN /\ sampled \in BOOLEAN /\ missed \subseteq Sensor
  BY DEF Init
<1>4. TypeOK BY <1>1, <1>2, <1>3, <1>3a, <1>3b DEF TypeOK
<1> QED BY <1>4 DEF Init, Inv, SetupInv, BusInv, RangeInv, MagReady

(* Registers are kept, and what follows from them. *)
LEMMA Kept ==
  ASSUME registers' = registers
  PROVE  \A s \in Sensor : Configured(s)' = Configured(s)
BY DEF Configured

-----------------------------------------------------------------------------
(* The set-up, write by write *)
LEMMA InvSetup ==
  ASSUME Inv, SetupStep
  PROVE  Inv'
<1> DEFINE a == Setup[k][1]   v == Setup[k][2]
<1>1. /\ pc = "setup" /\ k \in 1 .. 24 /\ k \in Nat /\ WriteByte(a, v)
      /\ missed' = IF k = 1 THEN LeftBehind ELSE missed
      /\ IF k = 24
         THEN pc' = "gate" /\ k' = 1 /\ output' = [s \in Sensor |-> Configured(s)]
         ELSE pc' = pc /\ k' = k + 1 /\ UNCHANGED output
      /\ UNCHANGED <<motion, steady, request, fs_sel, raw_data, measured, sampled, restarts>>
  BY SetupWrites DEF SetupStep, Inv, SetupInv
<1>2. /\ a \in Byte /\ v \in Byte /\ a # ACCEL_CONFIG
      /\ a = 127 <=> k \in {4, 6, 9, 14, 19, 20, 24}
      /\ k \in {4, 19, 24} => v = 0
      /\ k \in {6, 9, 14, 20} => v = 3
      /\ k = 1 => a = 6 /\ v = 128
      /\ a = 6 /\ v >= 128 => k = 1
      /\ k = 5 => a = 3 /\ v = 32
      /\ a = 1 <=> k = 7
      /\ k = 7 => v = 7
      /\ a = 2 <=> k = 8
      /\ k = 8 => v = 1
      /\ k = 21 => a = 3 /\ v = 140
      /\ k \in {22, 23} => a \in {4, 5}
  <2> HIDE DEF a, v
  <2>1. a = Setup[k][1] /\ v = Setup[k][2] BY DEF a, v
  <2> QED BY <1>1, <2>1, SetupWriteIs
<1> HIDE DEF a, v
<1>3. /\ TypeOK /\ bank \in 0 .. 3 /\ registers \in [Register -> Byte]
      /\ fs_sel = [s \in Sensor |-> FS_SEL_MIN]
  BY <1>1 DEF Inv, TypeOK, SetupInv
(* What the write does. *)
<1>4. CASE k = 1 /\ bank = 0
  <2>1. bank' = 0 /\ registers' = PowerUp
    BY <1>1, <1>2, <1>4 DEF WriteByte, REG_BANK_SEL, PWR_MGMT_1
  <2>2. registers' \in [Register -> Byte] BY <2>1 DEF PowerUp, Byte
  <2>3. \A s \in Sensor : Configured(s)' = 0
    <3> SUFFICES ASSUME NEW s \in Sensor PROVE PowerUp[<<2, ConfigOf[s]>>] = 1
      BY <2>1 DEF Configured
    <3>1. <<2, ConfigOf[s]>> \in {<<2, ACCEL_CONFIG>>, <<2, GYRO_CONFIG_1>>}
      BY DEF Sensor, ConfigOf
    <3>2. <<2, ConfigOf[s]>> # <<0, PWR_MGMT_1>> OBVIOUS
    <3> QED BY <3>1, <3>2, RegisterIs DEF PowerUp
  <2>4. k' = 2 /\ pc' = "setup" BY <1>1, <1>4
  <2>5. TypeOK'
    <3>1. missed' = {} BY <1>1, <1>4 DEF LeftBehind
    <3> QED BY <1>1, <1>3, <2>1, <2>2, <2>4, <3>1 DEF TypeOK
  <2>6. SetupInv' BY <1>1, <1>3, <2>1, <2>4 DEF SetupInv
  <2>7. RangeInv' BY <1>1, <1>3, <2>3, <2>4 DEF RangeInv, ToBeRead, FS_SEL_MIN
  <2>8. BusInv' /\ MagReady' BY <2>4 DEF BusInv, MagReady
  <2> QED BY <2>5, <2>6, <2>7, <2>8 DEF Inv
<1>5. CASE k = 1 /\ bank # 0
  <2>1. bank' = bank /\ registers' \in [Register -> Byte]
    BY <1>1, <1>2, <1>3, <1>5 DEF WriteByte, REG_BANK_SEL, PWR_MGMT_1
  <2>2. k' = 2 /\ pc' = "setup" /\ missed' = {s \in Sensor : Configured(s) # FS_SEL_MIN}
    BY <1>1, <1>5 DEF LeftBehind
  <2>3. TypeOK' BY <1>1, <1>3, <2>1, <2>2 DEF TypeOK
  <2>4. SetupInv' BY <1>1, <1>3, <2>2 DEF SetupInv
  <2>5. BusInv' /\ MagReady' BY <2>2 DEF BusInv, MagReady
  <2>6. RangeInv'
    <3>1. \A s \in Sensor : registers'[<<2, ConfigOf[s]>>] = registers[<<2, ConfigOf[s]>>]
      <4> SUFFICES ASSUME NEW s \in Sensor
                   PROVE  registers'[<<2, ConfigOf[s]>>] = registers[<<2, ConfigOf[s]>>]
        OBVIOUS
      <4>1. registers' = [r \in Register |-> IF r = <<bank, a>> THEN v ELSE registers[r]]
        BY <1>1, <1>2, <1>5 DEF WriteByte, REG_BANK_SEL, PWR_MGMT_1
      <4>2. <<2, ConfigOf[s]>> # <<bank, a>>
        BY <1>2, <1>5 DEF Sensor, ConfigOf, ACCEL_CONFIG, GYRO_CONFIG_1
      <4> QED BY <4>1, <4>2, RegisterIs
    <3>2. \A s \in Sensor : Configured(s)' = Configured(s) BY <3>1 DEF Configured
    <3>3. \A s \in Sensor \ missed' : Configured(s) = FS_SEL_MIN BY <2>2
    <3>4. fs_sel' = [s \in Sensor |-> FS_SEL_MIN] BY <1>1, <1>3
    <3>5. \A s \in Sensor \ missed' : Configured(s)' = fs_sel'[s] BY <3>2, <3>3, <3>4
    <3> QED BY <2>2, <3>5 DEF RangeInv, ToBeRead
  <2> QED BY <2>3, <2>4, <2>5, <2>6 DEF Inv
<1>6. CASE k # 1
  <2>1. /\ registers' \in [Register -> Byte]
        /\ IF a = 127 THEN bank' = v /\ registers' = registers
           ELSE /\ bank' = bank
                /\ \A r \in Register : registers'[r] = IF r = <<bank, a>> THEN v ELSE registers[r]
    <3>1. CASE a = 127 BY <1>1, <1>3, <3>1, Selected DEF REG_BANK_SEL
    <3>2. CASE a # 127 BY <1>1, <1>2, <1>3, <1>6, <3>2, Stored
    <3> QED BY <3>1, <3>2
  <2>2. bank' \in {0, 3, bank} BY <1>1, <1>2, <2>1
  <2>3. TypeOK'
    <3>1. pc' \in {"setup", "gate"} /\ k' \in Nat /\ output' \in [Sensor -> FsSel]
      BY <1>1, <1>3, ConfiguredIs DEF TypeOK
    <3> QED BY <1>1, <1>3, <1>6, <2>1, <2>2, <3>1 DEF TypeOK
  <2>4. /\ k >= 5 => bank = IF k \in {5, 6, 20} THEN 0 ELSE 3
        /\ k >= 6 => registers[<<0, USER_CTRL>>] = 32
        /\ k >= 8 => registers[<<3, I2C_MST_CTRL>>] = 7
        /\ k >= 9 => registers[<<3, I2C_MST_DELAY_CTRL>>] = 1
        /\ k >= 22 => registers[<<3, I2C_SLV0_ADDR>>] = 140
    BY <1>1 DEF Inv, SetupInv
  <2>5. /\ k >= 5 => registers'[<<0, USER_CTRL>>] = 32
        /\ k >= 7 => registers'[<<3, I2C_MST_CTRL>>] = 7
        /\ k >= 8 => registers'[<<3, I2C_MST_DELAY_CTRL>>] = 1
        /\ k >= 21 => registers'[<<3, I2C_SLV0_ADDR>>] = 140
    <3>1. k >= 5 => registers'[<<0, USER_CTRL>>] = 32
      BY <1>1, <1>2, <2>1, <2>4, RegisterIs DEF USER_CTRL
    <3>2. k >= 7 => registers'[<<3, I2C_MST_CTRL>>] = 7
      BY <1>1, <1>2, <2>1, <2>4, RegisterIs DEF I2C_MST_CTRL
    <3>3. k >= 8 => registers'[<<3, I2C_MST_DELAY_CTRL>>] = 1
      BY <1>1, <1>2, <2>1, <2>4, RegisterIs DEF I2C_MST_DELAY_CTRL
    <3>4. k >= 21 => registers'[<<3, I2C_SLV0_ADDR>>] = 140
      BY <1>1, <1>2, <2>1, <2>4, RegisterIs DEF I2C_SLV0_ADDR
    <3> QED BY <3>1, <3>2, <3>3, <3>4
  <2>6. k >= 4 => bank' = IF k \in {4, 5, 19, 24} THEN 0 ELSE 3
    BY <1>1, <1>2, <2>1, <2>4
  <2>8. SetupInv'
    BY <1>1, <1>3, <1>6, <2>5, <2>6 DEF SetupInv
  <2>9. MagReady'
    <3>1. pc' # "setup" => k = 24 BY <1>1
    <3> QED BY <2>5, <3>1 DEF MagReady
  <2>10. BusInv' BY <1>1 DEF BusInv
  <2>11. RangeInv'
    <3>1. missed' = missed BY <1>1, <1>6
    <3>2. bank # 2 \/ a \notin {1, 20}
      <4>1. a = 1 => bank = 3 BY <1>2, <2>4
      <4> QED BY <1>2, <4>1 DEF ACCEL_CONFIG
    <3>3. \A s \in Sensor : registers'[<<2, ConfigOf[s]>>] = registers[<<2, ConfigOf[s]>>]
      BY <2>1, <3>2, RegisterIs DEF Sensor, ConfigOf, ACCEL_CONFIG, GYRO_CONFIG_1
    <3>4. \A s \in Sensor : Configured(s)' = Configured(s) BY <3>3 DEF Configured
    <3>5. \A s \in Sensor \ missed : Configured(s) = fs_sel[s]
      BY <1>1, <1>6 DEF Inv, RangeInv, Writing
    <3>6. pc' = "gate" => \A s \in Sensor \ missed : output'[s] = fs_sel[s] BY <1>1, <3>5
    <3>7. pc' \in {"setup", "gate"} BY <1>1
    <3> QED BY <1>1, <3>1, <3>4, <3>5, <3>6, <3>7 DEF RangeInv, ToBeRead
  <2> QED BY <2>3, <2>8, <2>9, <2>10, <2>11 DEF Inv
<1> QED BY <1>4, <1>5, <1>6

(* The sensor: a sample is of the range that its register holds. *)
LEMMA InvSample ==
  ASSUME Inv, Sample
  PROVE  Inv'
<1>1. /\ pc = "delay" /\ sampled' = TRUE /\ output' = [s \in Sensor |-> Configured(s)]
      /\ UNCHANGED <<bank, registers, pc, k, request, fs_sel, raw_data, measured, missed, restarts>>
  BY DEF Sample, program, starts
<1>2. TypeOK /\ SetupInv /\ BusInv /\ RangeInv /\ MagReady BY DEF Inv
<1>3. /\ motion' \in [Sensor -> [Axis -> Level]] /\ steady' \in BOOLEAN
      /\ output' \in [Sensor -> FsSel]
  BY <1>1, <1>2, ConfiguredIs, ZenonT(40) DEF Sample, TypeOK
<1>4. TypeOK' BY <1>1, <1>2, <1>3 DEF TypeOK
<1>5. RangeInv'
  <2>1. \A s \in Sensor \ missed : Configured(s) = fs_sel[s] BY <1>1, <1>2 DEF RangeInv, Writing
  <2>2. \A s \in Sensor \ missed : output'[s] = fs_sel[s] BY <1>1, <2>1
  <2> QED BY <1>1, <2>1, <2>2, Kept DEF RangeInv
<1> QED BY <1>1, <1>2, <1>4, <1>5 DEF Inv, SetupInv, BusInv, MagReady

(* The processor of bus requests *)
LEMMA InvBus ==
  ASSUME Inv, Bus
  PROVE  Inv'
<1>1. TypeOK /\ SetupInv /\ BusInv /\ RangeInv /\ MagReady BY DEF Inv
<1>2. CASE SelectBank
  <2>1. /\ pc = "bus" /\ pc' = "transfer" /\ bank' = request.bank /\ registers' = registers
        /\ UNCHANGED <<motion, output, steady, k, request, fs_sel, raw_data, measured, sampled,
                       missed, restarts>>
    BY <1>2, Selected DEF SelectBank, starts
  <2>2. TypeOK' BY <1>1, <2>1 DEF TypeOK
  <2>3. BusInv' BY <1>1, <2>1 DEF BusInv, RangeWrite
  <2>4. RangeInv' BY <1>1, <2>1, Kept DEF RangeInv, ToBeRead, Writing
  <2> QED BY <1>1, <2>1, <2>2, <2>3, <2>4 DEF Inv, SetupInv, MagReady
<1>3. CASE TransferRead
  <2>1. /\ pc = "transfer" /\ request.type = "read" /\ pc' = "store"
        /\ raw_data' = IF bank = 0 THEN Output ELSE Zero
        /\ request' = NoRequest
        /\ UNCHANGED <<bank, registers, motion, output, steady, k, fs_sel, measured, sampled,
                       missed, restarts>>
    BY <1>3 DEF TransferRead, device, starts
  <2>2. request = ImuRead
    <3>1. RangeWrite(Order[k]).type # "read" BY DEF RangeWrite
    <3> QED BY <1>1, <2>1, <3>1 DEF BusInv
  <2>3. bank = 0 BY <1>1, <2>1, <2>2 DEF BusInv, ImuRead
  <2>4. TypeOK'
    <3>1. request' \in [type : {"none", "read", "write"}, bank : 0 .. 3, address : Byte, value : Byte]
      BY <2>1 DEF NoRequest, Byte
    <3> QED BY <1>1, <2>1, <3>1, OutputIs, ZeroIs DEF TypeOK
  <2>5. Output' = Output BY <2>1 DEF Output
  <2>6. RangeInv'
    BY <1>1, <2>1, <2>3, <2>5, Kept DEF RangeInv, ToBeRead, Writing
  <2> QED BY <1>1, <2>1, <2>4, <2>6 DEF Inv, SetupInv, BusInv, MagReady
<1>4. CASE TransferWrite
  <2> DEFINE s == Order[k]
  <2>1. /\ pc = "transfer" /\ request.type = "write" /\ WriteByte(request.address, request.value)
        /\ request' = NoRequest /\ missed' = missed \ {s}
        /\ \/ pc' = "delay" /\ k' = 1
           \/ k # 2 /\ pc' = "adjust" /\ k' = k + 1
        /\ UNCHANGED <<motion, output, steady, fs_sel, raw_data, measured, sampled, restarts>>
    BY <1>4, Orders DEF TransferWrite, starts
  <2>2. k \in 1 .. 2 /\ request = RangeWrite(s) /\ bank = 2 /\ s \in Sensor /\ ~sampled
    <3>1. ImuRead.type # "write" BY DEF ImuRead
    <3>2. k \in 1 .. 2 /\ request = RangeWrite(s) BY <1>1, <2>1, <3>1 DEF BusInv
    <3> QED BY <1>1, <2>1, <3>2, Orders DEF BusInv, RangeWrite
  <2>3. /\ request.address = ConfigOf[s] /\ request.value = Config(fs_sel[s])
        /\ ConfigOf[s] \in {1, 20}
    BY <2>2 DEF RangeWrite, ConfigOf, Sensor, ACCEL_CONFIG, GYRO_CONFIG_1
  <2> HIDE DEF s
  <2>4. fs_sel[s] \in FsSel BY <1>1, <2>2 DEF TypeOK
  <2>5. /\ bank' = bank /\ registers' \in [Register -> Byte]
        /\ \A r \in Register :
             registers'[r] = IF r = <<2, ConfigOf[s]>> THEN Config(fs_sel[s]) ELSE registers[r]
    <3>1. ConfigOf[s] \in Byte /\ ConfigOf[s] # 127 /\ ConfigOf[s] # 6 BY <2>3 DEF Byte
    <3>2. Config(fs_sel[s]) \in Byte BY <2>4, ConfigIs
    <3> QED BY <1>1, <2>1, <2>2, <2>3, <3>1, <3>2, Stored
  <2>6. TypeOK'
    <3>1. /\ request' \in [type : {"none", "read", "write"}, bank : 0 .. 3, address : Byte, value : Byte]
          /\ k' \in Nat
      BY <2>1, <2>2 DEF NoRequest, Byte
    <3> QED BY <1>1, <2>1, <2>5, <3>1 DEF TypeOK
  <2>7. MagReady'
    BY <1>1, <2>1, <2>5, RegisterIs DEF MagReady
  <2>8. RangeInv'
    <3>1. ASSUME NEW t \in Sensor \ missed' PROVE Configured(t)' = fs_sel[t]
      <4>1. CASE t = s BY <4>1, <2>4, <2>5, ConfigIs, RegisterIs DEF Configured
      <4>2. CASE t # s
        <5>1. <<2, ConfigOf[t]>> # <<2, ConfigOf[s]>>
          BY <2>2, <4>2 DEF Sensor, ConfigOf, ACCEL_CONFIG, GYRO_CONFIG_1
        <5>2. Configured(t)' = Configured(t) BY <2>5, <5>1, RegisterIs DEF Configured
        <5>3. ~Writing(t) BY <4>2 DEF Writing, s
        <5>4. t \in Sensor \ missed BY <2>1, <3>1, <4>2
        <5> QED BY <1>1, <2>1, <5>2, <5>3, <5>4 DEF RangeInv
      <4> QED BY <4>1, <4>2
    <3> QED BY <2>1, <2>2, <3>1 DEF RangeInv, ToBeRead
  <2>9. BusInv' BY <2>1, <2>2 DEF BusInv
  <2> QED BY <2>1, <2>6, <2>7, <2>8, <2>9 DEF Inv, SetupInv
<1> QED BY <1>2, <1>3, <1>4 DEF Bus

(* The navigation process *)
LEMMA InvNavigation ==
  ASSUME Inv, Navigation
  PROVE  Inv'
<1>1. TypeOK /\ SetupInv /\ BusInv /\ RangeInv /\ MagReady BY DEF Inv
<1>2. CASE RequestImuData
  <2>1. /\ pc = "gate" /\ pc' = "bus" /\ request' = ImuRead /\ sampled' = FALSE
        /\ UNCHANGED <<bank, registers, motion, output, steady, k, fs_sel, raw_data, measured,
                       missed, restarts>>
    BY <1>2 DEF RequestImuData, Request, ImuRead, device, starts
  <2>2. TypeOK'
    <3>1. request' \in [type : {"none", "read", "write"}, bank : 0 .. 3, address : Byte, value : Byte]
      BY <2>1 DEF ImuRead, Byte
    <3> QED BY <1>1, <2>1, <3>1 DEF TypeOK
  <2>3. BusInv'
    <3>1. pc' = "bus" /\ ~sampled' BY <2>1
    <3>2. request' = ImuRead BY <2>1
    <3> QED BY <3>1, <3>2 DEF BusInv, ImuRead
  <2>4. RangeInv' BY <1>1, <2>1, Kept DEF RangeInv, ToBeRead, Writing
  <2> QED BY <1>1, <2>1, <2>2, <2>3, <2>4 DEF Inv, SetupInv, MagReady
<1>3. CASE Store
  <2>1. /\ pc = "store" /\ pc' = "adjust" /\ k' = 1
        /\ measured' = [s \in Sensor |-> [a \in Axis |-> raw_data[s][a] * Multiplier(s)]]
        /\ UNCHANGED <<bank, registers, motion, output, steady, request, fs_sel, raw_data, sampled,
                       missed, restarts>>
    BY <1>3 DEF Store, device, starts
  <2>2. measured' \in [Sensor -> [Axis -> Int]]
    <3> SUFFICES ASSUME NEW s \in Sensor, NEW a \in Axis
                 PROVE  raw_data[s][a] * Multiplier(s) \in Int
      BY <2>1
    <3>1. raw_data[s][a] \in Int /\ fs_sel[s] \in FsSel
      BY <1>1, ImuAssumption DEF TypeOK, Reading
    <3>2. Multiplier(s) \in Nat BY <3>1, Multiplied
    <3> QED BY <3>1, <3>2
  <2>3. TypeOK' BY <1>1, <2>1, <2>2 DEF TypeOK
  <2>4. BusInv' BY <1>1, <2>1 DEF BusInv
  <2>5. RangeInv' BY <1>1, <2>1, Kept DEF RangeInv, ToBeRead, Writing
  <2> QED BY <1>1, <2>1, <2>3, <2>4, <2>5 DEF Inv, SetupInv, MagReady
<1>4. CASE Adjust
  <2> DEFINE s == Order[k]
  <2>1. /\ pc = "adjust" /\ k \in 1 .. 2 /\ s \in Sensor /\ ~sampled
        /\ UNCHANGED <<bank, registers, motion, output, steady, raw_data, measured, sampled,
                       missed, restarts>>
    BY <1>1, <1>4, Orders DEF Adjust, BusInv, device, starts
  <2>2. /\ fs_sel \in [Sensor -> FsSel] /\ fs_sel[s] \in FsSel
    BY <1>1, <2>1 DEF TypeOK
  <2>3. ASSUME NEW sel \in FsSel, SetRange(s, sel)
        PROVE  Inv'
    <3>1. /\ fs_sel' = [fs_sel EXCEPT ![s] = sel] /\ pc' = "bus" /\ k' = k
          /\ request' = [type |-> "write", bank |-> 2, address |-> ConfigOf[s], value |-> Config(sel)]
      BY <2>3 DEF SetRange, Request
    <3>2. fs_sel'[s] = sel /\ fs_sel' \in [Sensor -> FsSel] BY <2>1, <2>2, <3>1
    <3>3. request' \in [type : {"none", "read", "write"}, bank : 0 .. 3, address : Byte, value : Byte]
      <4>1. Config(sel) \in Byte BY ConfigIs
      <4>2. ConfigOf[s] \in Byte BY <2>1 DEF Sensor, ConfigOf, ACCEL_CONFIG, GYRO_CONFIG_1, Byte
      <4> QED BY <3>1, <4>1, <4>2
    <3>4. TypeOK' BY <1>1, <2>1, <3>1, <3>2, <3>3 DEF TypeOK
    <3>5. request' = RangeWrite(Order[k])' BY <3>1, <3>2 DEF RangeWrite
    <3>6. BusInv' BY <2>1, <3>1, <3>5 DEF BusInv
    <3>7. RangeInv'
      <4>1. \A t \in Sensor \ missed : Configured(t)' = fs_sel[t]
        BY <1>1, <2>1, Kept DEF RangeInv, Writing
      <4>2. request'.type = "write" BY <3>1
      <4>3. \A t \in Sensor : t # s => fs_sel'[t] = fs_sel[t] /\ ~(t = s) BY <2>2, <3>1
      <4>4. pc' = "bus" /\ s = Order[k'] BY <3>1
      <4>5. ASSUME NEW t \in Sensor \ missed, ~Writing(t)' PROVE Configured(t)' = fs_sel'[t]
        <5>1. t # s BY <4>2, <4>4, <4>5 DEF Writing
        <5> QED BY <4>1, <4>3, <4>5, <5>1
      <4>6. pc' = "bus" /\ ~ToBeRead' BY <3>1, <4>2 DEF ToBeRead
      <4>7. missed' = missed BY <2>1
      <4> QED BY <4>5, <4>6, <4>7 DEF RangeInv
    <3> QED BY <1>1, <2>1, <3>1, <3>4, <3>6, <3>7 DEF Inv, SetupInv, MagReady
  <2>4. ASSUME UNCHANGED <<fs_sel, request>>,
               \/ pc' = "delay" /\ k' = 1
               \/ pc' = pc /\ k # 2 /\ k' = k + 1
        PROVE  Inv'
    <3>1. TypeOK' BY <1>1, <2>1, <2>4 DEF TypeOK
    <3>2. BusInv' BY <2>1, <2>4 DEF BusInv
    <3>3. RangeInv' BY <1>1, <2>1, <2>4, Kept DEF RangeInv, ToBeRead, Writing
    <3> QED BY <1>1, <2>1, <2>4, <3>1, <3>2, <3>3 DEF Inv, SetupInv, MagReady
  <2>5. CASE Raises(s) /\ SetRange(s, fs_sel[s] + 1)
    <3>1. fs_sel[s] + 1 \in FsSel
      BY <2>2, <2>5 DEF Raises, Highest, FsSel, FS_SEL_MIN, FS_SEL_MAX
    <3> QED BY <2>3, <2>5, <3>1
  <2>6. CASE Lowers(s) /\ SetRange(s, fs_sel[s] - 1)
    <3>1. fs_sel[s] - 1 \in FsSel
      BY <2>2, <2>6 DEF Lowers, Lowest, FsSel, FS_SEL_MIN, FS_SEL_MAX
    <3> QED BY <2>3, <2>6, <3>1
  <2>7. CASE /\ IF k = Len(Order) THEN pc' = "delay" /\ k' = 1 ELSE pc' = pc /\ k' = k + 1
             /\ UNCHANGED <<fs_sel, request>>
    BY <2>4, <2>7, Orders
  <2> QED BY <1>4, <2>5, <2>6, <2>7 DEF Adjust
<1>5. CASE Delay
  <2>1. /\ pc = "delay" /\ sampled /\ pc' = "gate" /\ raw_data' = Zero
        /\ UNCHANGED <<bank, registers, motion, output, steady, k, request, fs_sel, measured,
                       sampled, missed, restarts>>
    BY <1>5 DEF Delay, DelayOver, device, starts
  <2>2. TypeOK' BY <1>1, <2>1, ZeroIs DEF TypeOK
  <2>3. RangeInv' BY <1>1, <2>1, Kept DEF RangeInv, ToBeRead, Writing
  <2> QED BY <1>1, <2>1, <2>2, <2>3 DEF Inv, SetupInv, BusInv, MagReady
<1> QED BY <1>2, <1>3, <1>4, <1>5 DEF Navigation

LEMMA InvRestart ==
  ASSUME Inv, Restart
  PROVE  Inv'
<1>1. /\ pc' = "setup" /\ k' = 1 /\ request' = NoRequest /\ restarts < MaxRestart /\ restarts' = restarts + 1
      /\ fs_sel' = [s \in Sensor |-> FS_SEL_MIN]
      /\ raw_data' = Zero /\ measured' = Zero /\ sampled' = FALSE
      /\ UNCHANGED <<bank, registers, motion, output, steady, missed>>
  BY DEF Restart, device
<1>2. TypeOK'
  <2>1. /\ request' \in [type : {"none", "read", "write"}, bank : 0 .. 3, address : Byte, value : Byte]
        /\ fs_sel' \in [Sensor -> FsSel] /\ measured' \in [Sensor -> [Axis -> Int]]
    BY <1>1 DEF NoRequest, Byte, Zero, FsSel, FS_SEL_MIN, FS_SEL_MAX
  <2>2. restarts' \in 0 .. MaxRestart BY <1>1, ImuAssumption DEF Inv, TypeOK
  <2> QED BY <1>1, <2>1, <2>2, ZeroIs DEF Inv, TypeOK
<1> QED BY <1>1, <1>2 DEF Inv, SetupInv, BusInv, RangeInv, MagReady

LEMMA NextInv == Inv /\ [Next]_vars => Inv'
<1> SUFFICES ASSUME Inv, [Next]_vars PROVE Inv'
  OBVIOUS
<1>1. CASE UNCHANGED vars
  <2>1. UNCHANGED <<bank, registers, motion, output, steady, pc, k, request, fs_sel, raw_data,
                    measured, sampled, missed, restarts>>
    BY <1>1 DEF vars, device, program, starts
  <2>2. TypeOK' BY <2>1 DEF Inv, TypeOK
  <2>3. Output' = Output BY <2>1 DEF Output
  <2>4. RangeInv' BY <2>1, <2>3, Kept DEF Inv, RangeInv, ToBeRead, Writing
  <2> QED BY <2>1, <2>2, <2>4 DEF Inv, SetupInv, BusInv, MagReady, RangeWrite
<1> QED BY <1>1, InvSetup, InvSample, InvBus, InvNavigation, InvRestart DEF Next

LEMMA Invariant == Spec => []Inv
BY InitInv, NextInv, PTL DEF Spec

(* Requests are for registers of one of the four banks, and ranges are ones *)
(* that the sensor has (dma_imu_icm20948.c, imu_icm20948.c).               *)
THEOREM TypeCorrect == Spec => []TypeOK
<1>1. Inv => TypeOK BY DEF Inv
<1> QED BY <1>1, Invariant, PTL

(* imu_icm20948.c: whatever bank the sensor was left in by a restart, the    *)
(* magnetometer's link is configured when the set-up is over, and no range *)
(* that is written later changes it.                                       *)
THEOREM Magnetometer == Spec => []MagReady
<1>1. Inv => MagReady BY DEF Inv
<1> QED BY <1>1, Invariant, PTL

(* navigation.c, global_imu.c: a reading is converted with the range it was  *)
(* taken in, in spite of the changes of range between and of restarts:     *)
(* below its limits it is true to one step of that range and one unit for  *)
(* each of its counts.  Sensors whose range a reset has missed are left    *)
(* out until the program writes it.                                        *)
THEOREM StoredTrue == Spec => TrueUnlessSaturated
<1>1. ASSUME Inv, Next, pc = "store", pc' = "adjust", NEW s \in Sensor \ missed, NEW a \in Axis,
             ~AtLimit(raw_data[s][a])
      PROVE  ABS(measured'[s][a] * RAW_RANGE - motion[s][a] * MinRange[s])
               < 2 ^ fs_sel[s] * MinRange[s] + ABS(raw_data[s][a]) * RAW_RANGE
  <2>1. Store
    BY <1>1 DEF Next, SetupStep, Sample, Bus, SelectBank, TransferRead, TransferWrite, Navigation,
       RequestImuData, Adjust, Delay, Restart
  <2>2. raw_data = Output /\ output[s] = fs_sel[s] BY <1>1 DEF Inv, RangeInv, ToBeRead
  <2> DEFINE m == motion[s][a]   o == fs_sel[s]   q == m \div 2 ^ o   f == Multiplier(s)
             n == MinRange[s]
  <2>3. m \in Int /\ o \in FsSel
    <3>1. Level \subseteq Int BY ImuAssumption
    <3>2. s \in Sensor BY <1>1
    <3>3. motion[s][a] \in Level /\ fs_sel[s] \in FsSel
      BY <1>1, <3>2, ZenonT(40) DEF Inv, TypeOK
    <3> QED BY <3>1, <3>3
  <2>4. raw_data[s][a] = Clamp(q) BY <2>2 DEF Output
  <2>5. measured'[s][a] = raw_data[s][a] * f BY <2>1 DEF Store
  <2>6. n \in Nat \ {0} BY ImuAssumption
  <2>7. PICK d \in Nat \ {0} : RAW_RANGE = 2 ^ o * d /\ f * d <= n /\ n < f * d + d
    BY <2>3, Multiplied
  <2>8. f \in Nat BY <2>3, Multiplied
  <2> HIDE DEF m, o, f, n
  <2>9. 2 ^ o \in Nat /\ q \in Int /\ q * 2 ^ o <= m /\ m < q * 2 ^ o + 2 ^ o BY <2>3, Divided
  <2>10. raw_data[s][a] = q /\ measured'[s][a] = q * f BY <1>1, <2>4, <2>5, <2>9, ClampIs
  <2> HIDE DEF q
  <2>11. ABS((q * f) * (2 ^ o * d) - m * n) < 2 ^ o * n + ABS(q) * (2 ^ o * d)
    BY <2>3, <2>6, <2>7, <2>8, <2>9, Rounded
  <2> QED BY <2>7, <2>10, <2>11 DEF m, o, n
<1>2. Inv /\ [Next]_vars
        => [pc = "store" /\ pc' = "adjust" =>
              \A s \in Sensor \ missed, a \in Axis :
                ~AtLimit(raw_data[s][a]) =>
                  ABS(measured'[s][a] * RAW_RANGE - motion[s][a] * MinRange[s])
                    < 2 ^ fs_sel[s] * MinRange[s] + ABS(raw_data[s][a]) * RAW_RANGE]_vars
  BY <1>1
<1> QED BY <1>2, Invariant, PTL DEF Spec, TrueUnlessSaturated

-----------------------------------------------------------------------------
(* The radio receiver *)

(* The cell at x is the Rank(x)-th oldest. *)
Rank(x) == IF x >= write.at THEN x - write.at ELSE x - write.at + Size

(* It is of a frame with channels, and of which one. *)
Ch(x) == crsf_receive_buffer[x].frame.type = "channels"
Value(x) == crsf_receive_buffer[x].frame.value

(* Later cells are of later frames, and none is newer than the last one. *)
WrittenInOrder ==
  \A x, y \in Position : Ch(x) /\ Ch(y) /\ Rank(x) < Rank(y) => Value(x) <= Value(y)

Newest ==
  /\ write.frame.type = "channels" => write.frame.value = count
  /\ \A x \in Position : Ch(x) => Value(x) <= count

(* A whole frame with channels begins at q. *)
Whole(q) ==
  /\ Ch(q)
  /\ \A m \in 1 .. Length["channels"] :
       crsf_receive_buffer[Around(q, m - 1)] = Cell(crsf_receive_buffer[q].frame, m)

(* The frame that was read last *)
Latest == crsf_channels[1].frame.value

(* The search has passed no whole frame, but one that the byte which came    *)
(* during the search has completed.                                        *)
PassedNew ==
  rc_pc = "scan" => \A q \in Position : q < i /\ Whole(q) => arrived /\ Value(q) = count

(* An older frame than the last one is not found first: the last one is still *)
(* in front of it.                                                         *)
NoneOlder ==
  \A q \in Position : q >= i /\ Whole(q) /\ Value(q) < Latest =>
    \E p \in Position : i <= p /\ p < q /\ Whole(p) /\ Value(p) = Latest

Search == Latest <= count /\ (rc_pc = "delay" => i = 0) /\ PassedNew /\ NoneOlder

RcInv == RcTypeOK /\ WrittenInOrder /\ Newest /\ Search

LEMMA Sizes ==
  /\ Size \in Nat /\ Size > 0 /\ MaxFrame \in Nat
  /\ \A t \in Type : Length[t] \in Nat /\ Length[t] >= 2 /\ Length[t] <= Size
  /\ Length["channels"] \in Nat /\ Length["channels"] >= 2 /\ Length["channels"] <= Size
BY RcAssumption DEF Type

LEMMA FrameFacts ==
  /\ NoFrame \notin Frame
  /\ \A f \in Frame : f.type \in Type /\ f.value \in Nat
  /\ \A f \in Frame \cup {NoFrame} :
       /\ f.value \in Nat
       /\ f.type = "channels" => f \in Frame
       /\ f.type = "statistics" => f \in Frame
BY Sizes DEF NoFrame, Frame, Type, Good, Bad

LEMMA AroundIn == \A p, n \in Nat : Around(p, n) \in Position
BY Sizes DEF Around, Position

LEMMA AroundIs ==
  ASSUME NEW p \in Position
  PROVE  /\ Around(p, 0) = p
         /\ \A n \in 0 .. Size - 1 : Around(p, n) = IF p + n < Size THEN p + n ELSE p + n - Size
BY Sizes DEF Around, Position

LEMMA WrapsIs ==
  ASSUME NEW p \in Position
  PROVE  Wraps(p) = (IF p + 1 = Size THEN 0 ELSE p + 1) /\ Wraps(p) \in Position
BY Sizes DEF Wraps, Position

(* What the receiver and the DMA channel put, and the types *)
LEMMA TypePut ==
  ASSUME RcTypeOK, NEW f \in Frame, NEW n \in Nat, Put(f, n)
  PROVE  /\ crsf_receive_buffer' \in [Position -> Cells]
         /\ write' \in [at : Position, frame : Frame \cup {NoFrame}, part : Nat]
         /\ arrived' \in BOOLEAN
<1>1. Cell(f, n) \in Cells BY DEF Cell, Cells
<1>2. write.at \in Position BY DEF RcTypeOK
<1>3. Wraps(write.at) \in Position BY <1>2, WrapsIs
<1> QED BY <1>1, <1>2, <1>3 DEF Put, RcTypeOK

LEMMA ChannelsFrame ==
  ASSUME NEW n \in 1 .. MaxFrame PROVE [type |-> "channels", value |-> n] \in Frame
BY DEF Frame

LEMMA StatisticsFrame ==
  [type |-> "statistics", value |-> IF radio THEN Good ELSE Bad] \in Frame
BY DEF Frame

LEMMA SendPartIs ==
  ASSUME RcTypeOK, SendPart
  PROVE  /\ write.frame \in Frame /\ write.part + 1 \in Nat
         /\ Put(write.frame, write.part + 1)
BY DEF SendPart, BetweenFrames, RcTypeOK

LEMMA SendChannelsIs ==
  ASSUME RcTypeOK, SendChannels
  PROVE  /\ count' = count + 1 /\ count' \in 1 .. MaxFrame
         /\ [type |-> "channels", value |-> count'] \in Frame
         /\ Put([type |-> "channels", value |-> count'], 1)
<1>1. count' \in 1 .. MaxFrame BY Sizes DEF SendChannels, RcTypeOK
<1> QED BY <1>1, ChannelsFrame DEF SendChannels

LEMMA PackedType ==
  ASSUME RcTypeOK, NEW p \in Position
  PROVE  ChannelsPacked(crsf_receive_buffer, p) \in [1 .. Length["channels"] -> Cells]
<1> SUFFICES ASSUME NEW m \in 1 .. Length["channels"]
             PROVE  crsf_receive_buffer[Around(p, m - 1)] \in Cells
  BY DEF ChannelsPacked
<1>1. m - 1 \in Nat /\ p \in Nat BY Sizes DEF Position
<1>2. Around(p, m - 1) \in Position BY <1>1, AroundIn
<1> QED BY <1>2 DEF RcTypeOK

LEMMA InitType == RcInit => RcTypeOK
<1> SUFFICES ASSUME RcInit PROVE RcTypeOK
  OBVIOUS
<1>1. Empty \in Cells BY DEF Empty, Cell, Cells
<1>2. 0 \in Position BY Sizes DEF Position
<1>3. crsf_channels \in [1 .. Length["channels"] -> Cells] /\ crsf_receive_buffer \in [Position -> Cells]
  BY <1>1 DEF RcInit
<1>4. write \in [at : Position, frame : Frame \cup {NoFrame}, part : Nat]
  BY <1>2 DEF RcInit
<1>5. count \in 0 .. MaxFrame /\ i \in 0 .. Size BY Sizes DEF RcInit
<1>6. /\ radio \in BOOLEAN /\ arrived \in BOOLEAN /\ RCRXFailsafe \in BOOLEAN
      /\ rc_pc \in {"scan", "delay"}
  BY DEF RcInit
<1> QED BY <1>3, <1>4, <1>5, <1>6 DEF RcTypeOK

LEMMA NextType == RcTypeOK /\ [RcNext]_rc_vars => RcTypeOK'
<1> SUFFICES ASSUME RcTypeOK, [RcNext]_rc_vars PROVE RcTypeOK'
  OBVIOUS
<1>1. CASE SendPart
  BY <1>1, SendPartIs, TypePut DEF SendPart, RcTypeOK
<1>2. CASE SendChannels
  <2>1. count' \in 0 .. MaxFrame BY <1>2, SendChannelsIs
  <2> QED BY <1>2, <2>1, SendChannelsIs, TypePut DEF SendChannels, RcTypeOK
<1>3. CASE SendStatistics
  BY <1>3, StatisticsFrame, TypePut DEF SendStatistics, RcTypeOK
<1>4. CASE LoseRadio BY <1>4 DEF LoseRadio, RcTypeOK
<1>5. CASE ScanNext BY <1>5, Sizes DEF ScanNext, line, RcTypeOK
<1>6. CASE Investigate
  <2>1. i \in Position /\ i + 1 \in 0 .. Size
    BY <1>6, Sizes DEF Investigate, RcTypeOK, Position
  <2>2. ChannelsPacked(crsf_receive_buffer, i) \in [1 .. Length["channels"] -> Cells]
    BY <2>1, PackedType
  <2>3. rc_pc' \in {"scan", "delay"} /\ i' \in 0 .. Size
    BY <1>6, <2>1, Sizes DEF Investigate, RcTypeOK
  <2>4. crsf_channels' \in [1 .. Length["channels"] -> Cells]
    BY <1>6, <2>2 DEF Investigate, RcTypeOK
  <2>5. RCRXFailsafe' \in BOOLEAN
    BY <1>6 DEF Investigate, Failsafe, RcTypeOK
  <2> QED BY <1>6, <2>3, <2>4, <2>5 DEF Investigate, line, RcTypeOK
<1>7. CASE ScanEnd BY <1>7, Sizes DEF ScanEnd, line, RcTypeOK
<1>8. CASE RcDelay BY <1>8 DEF RcDelay, RcTypeOK
<1>9. CASE UNCHANGED rc_vars BY <1>9 DEF rc_vars, line, RcTypeOK
<1> QED BY <1>1, <1>2, <1>3, <1>4, <1>5, <1>6, <1>7, <1>8, <1>9 DEF RcNext, Receiver

LEMMA CellFacts ==
  RcTypeOK => \A x \in Position :
    /\ crsf_receive_buffer[x].frame \in Frame \cup {NoFrame}
    /\ crsf_receive_buffer[x].part \in Nat
    /\ Value(x) \in Nat
    /\ Ch(x) => crsf_receive_buffer[x].frame # NoFrame
BY FrameFacts DEF RcTypeOK, Cells, Value, Ch, NoFrame

(* A frame with channels passes the checks where a whole one begins. *)
LEMMA ValidIs ==
  ASSUME RcTypeOK, NEW q \in Position
  PROVE  Valid(crsf_receive_buffer, q) /\ Ch(q) <=> Whole(q)
<1> SUFFICES ASSUME Ch(q)
             PROVE  Valid(crsf_receive_buffer, q)
                    <=> \A n \in 1 .. Length["channels"] :
                          crsf_receive_buffer[Around(q, n - 1)]
                            = Cell(crsf_receive_buffer[q].frame, n)
  BY DEF Whole
<1>1. crsf_receive_buffer[q].frame # NoFrame BY CellFacts
<1>2. crsf_receive_buffer[q].frame.type = "channels" BY DEF Ch
<1>3. Around(q, 0) = q /\ 1 \in 1 .. Length["channels"] /\ 1 - 1 = 0 BY AroundIs, Sizes
<1>4. ASSUME crsf_receive_buffer[Around(q, 1 - 1)] = Cell(crsf_receive_buffer[q].frame, 1)
      PROVE  crsf_receive_buffer[q].part = 1
  BY <1>3, <1>4 DEF Cell
<1> DEFINE All == \A n \in 1 .. Length["channels"] :
                    crsf_receive_buffer[Around(q, n - 1)] = Cell(crsf_receive_buffer[q].frame, n)
<1>5. All => crsf_receive_buffer[q].part = 1 BY <1>3, <1>4
<1>6. CASE crsf_receive_buffer[q].part = 1
  <2>1. Header(crsf_receive_buffer, q) = crsf_receive_buffer[q].frame BY <1>6 DEF Header
  <2> QED BY <1>1, <1>2, <2>1 DEF Valid, CrcOk
<1>7. CASE crsf_receive_buffer[q].part # 1
  <2>1. Header(crsf_receive_buffer, q) = NoFrame BY <1>7 DEF Header
  <2> QED BY <1>5, <1>7, <2>1 DEF Valid
<1> QED BY <1>6, <1>7

LEMMA LatestIs == ASSUME RcTypeOK PROVE Latest \in Nat
<1>1. 1 \in 1 .. Length["channels"] BY Sizes
<1>2. crsf_channels[1] \in Cells BY <1>1 DEF RcTypeOK
<1> QED BY <1>2, FrameFacts DEF Cells, Latest

LEMMA RankFacts ==
  ASSUME RcTypeOK, NEW x \in Position
  PROVE  /\ write.at \in Position /\ Rank(x) \in 0 .. Size - 1
         /\ Rank(x) = 0 <=> x = write.at
BY Sizes, SMTT(40) DEF RcTypeOK, Rank, Position

(* A byte: the cell it is written to was the oldest and is the newest. *)
LEMMA PutCells ==
  ASSUME RcTypeOK, NEW f \in Frame, NEW n \in Nat, Put(f, n)
  PROVE  /\ crsf_receive_buffer'[write.at] = Cell(f, n)
         /\ \A x \in Position : x # write.at => crsf_receive_buffer'[x] = crsf_receive_buffer[x]
         /\ \A x \in Position : Rank(x)' = IF x = write.at THEN Size - 1 ELSE Rank(x) - 1
<1>1. write.at \in Position /\ crsf_receive_buffer \in [Position -> Cells] BY DEF RcTypeOK
<1>2. ASSUME NEW x \in Position
      PROVE  Rank(x)' = IF x = write.at THEN Size - 1 ELSE Rank(x) - 1
  <2>1. write'.at = IF write.at + 1 = Size THEN 0 ELSE write.at + 1
    BY <1>1, WrapsIs DEF Put
  <2> QED BY <1>1, <2>1, Sizes, SMTT(40) DEF Rank, Position
<1> QED BY <1>1, <1>2 DEF Put

(* The cells stay in the order of their frames. *)
LEMMA PutOrder ==
  ASSUME RcTypeOK, WrittenInOrder, Newest, NEW f \in Frame, NEW n \in Nat, Put(f, n),
         count \in Nat, count' \in Nat, count' >= count, f.type = "channels" => f.value = count'
  PROVE  WrittenInOrder' /\ Newest'
<1> DEFINE old(x) == x # write.at
<1>1. \A x \in Position : old(x) => /\ Ch(x)' = Ch(x) /\ Value(x)' = Value(x)
                                   /\ Rank(x)' = Rank(x) - 1
  BY PutCells DEF Ch, Value
<1>2. \A x \in Position : ~old(x) => /\ Ch(x)' => Value(x)' = count'
                                    /\ Rank(x)' = Size - 1
  <2> SUFFICES ASSUME NEW x \in Position, x = write.at
               PROVE  (Ch(x)' => Value(x)' = count') /\ Rank(x)' = Size - 1
    OBVIOUS
  <2>1. crsf_receive_buffer'[x] = Cell(f, n) BY PutCells
  <2>2. crsf_receive_buffer'[x].frame = f BY <2>1 DEF Cell
  <2> QED BY <2>2, PutCells DEF Ch, Value
<1>3. \A x \in Position : Value(x) \in Nat BY CellFacts
<1>4. \A x \in Position : Ch(x)' => Value(x)' <= count'
  BY <1>1, <1>2, <1>3 DEF Newest
<1>5. Newest' BY <1>4 DEF Newest, Put
<1>6. ASSUME NEW x \in Position, NEW y \in Position, Ch(x)', Ch(y)', Rank(x)' < Rank(y)'
      PROVE  Value(x)' <= Value(y)'
  <2>1. Rank(x) \in 0 .. Size - 1 /\ Rank(y) \in 0 .. Size - 1 /\ Size \in Nat
    BY RankFacts, Sizes
  <2>2. CASE ~old(y)
    BY <2>2, <1>2, <1>4, <1>6
  <2>3. CASE old(y)
    <3>1. old(x)
      <4> SUFFICES ASSUME ~old(x) PROVE FALSE OBVIOUS
      <4>1. Rank(x)' = Size - 1 /\ Rank(y)' = Rank(y) - 1 BY <1>1, <1>2, <2>3
      <4> QED BY <1>6, <2>1, <4>1
    <3>2. Rank(x) < Rank(y)
      <4>1. Rank(x)' = Rank(x) - 1 /\ Rank(y)' = Rank(y) - 1 BY <1>1, <2>3, <3>1
      <4> QED BY <1>6, <2>1, <4>1
    <3> QED BY <1>1, <1>6, <2>3, <3>1, <3>2 DEF WrittenInOrder
  <2> QED BY <2>2, <2>3
<1> QED BY <1>5, <1>6 DEF WrittenInOrder

(* A frame becomes whole by its last byte only, and is then the newest. *)
LEMMA PutWhole ==
  ASSUME RcTypeOK, RcTypeOK', NEW f \in Frame, NEW n \in Nat, Put(f, n),
         f.type = "channels" => f.value = count',
         NEW q \in Position, Whole(q)'
  PROVE  \/ Value(q)' = count'
         \/ Whole(q) /\ Value(q)' = Value(q)
<1>1. /\ Ch(q)'
      /\ \A m \in 1 .. Length["channels"] :
           crsf_receive_buffer'[Around(q, m - 1)] = Cell(crsf_receive_buffer'[q].frame, m)
  BY DEF Whole
<1>2. CASE \E m \in 1 .. Length["channels"] : Around(q, m - 1) = write.at
  <2>1. PICK m \in 1 .. Length["channels"] : Around(q, m - 1) = write.at BY <1>2
  <2>2. Cell(f, n) = Cell(crsf_receive_buffer'[q].frame, m)
    BY <1>1, <2>1, PutCells
  <2>3. f = crsf_receive_buffer'[q].frame BY <2>2 DEF Cell
  <2> QED BY <1>1, <2>3 DEF Ch, Value
<1>3. CASE \A m \in 1 .. Length["channels"] : Around(q, m - 1) # write.at
  <2>1. Around(q, 1 - 1) = q /\ 1 \in 1 .. Length["channels"] BY AroundIs, Sizes
  <2>2. q # write.at BY <1>3, <2>1
  <2>3. crsf_receive_buffer'[q] = crsf_receive_buffer[q] BY <2>2, PutCells
  <2>4. \A m \in 1 .. Length["channels"] :
          crsf_receive_buffer[Around(q, m - 1)] = Cell(crsf_receive_buffer[q].frame, m)
    <3> TAKE m \in 1 .. Length["channels"]
    <3>1. m - 1 \in Nat /\ q \in Nat BY Sizes DEF Position
    <3>2. Around(q, m - 1) \in Position BY <3>1, AroundIn
    <3> QED BY <1>1, <1>3, <2>3, <3>2, PutCells
  <2>5. Ch(q) /\ Value(q)' = Value(q) BY <1>1, <2>3 DEF Ch, Value
  <2> QED BY <2>4, <2>5 DEF Whole
<1> QED BY <1>2, <1>3

(* A frame that is in front of an older one is overwritten after it. *)
LEMMA PutKeeps ==
  ASSUME RcTypeOK, RcTypeOK', WrittenInOrder, NEW f \in Frame, NEW n \in Nat, Put(f, n),
         NEW p \in Position, NEW q \in Position, Whole(p), Whole(q), Value(q) < Value(p)
  PROVE  Whole(p)' /\ Value(p)' = Value(p)
<1>1. /\ Ch(p) /\ Ch(q)
      /\ \A m \in 1 .. Length["channels"] :
           crsf_receive_buffer[Around(p, m - 1)] = Cell(crsf_receive_buffer[p].frame, m)
  BY DEF Whole
<1>2. ASSUME NEW m \in 1 .. Length["channels"]
      PROVE  Around(p, m - 1) \in Position /\ Around(p, m - 1) # write.at
  <2> DEFINE y == Around(p, m - 1)
  <2>1. y \in Position
    <3>1. m - 1 \in Nat /\ p \in Nat BY Sizes DEF Position
    <3> QED BY <3>1, AroundIn
  <2> SUFFICES ASSUME y = write.at PROVE FALSE BY <2>1
  <2>2. crsf_receive_buffer[y].frame = crsf_receive_buffer[p].frame
    <3>1. crsf_receive_buffer[y] = Cell(crsf_receive_buffer[p].frame, m) BY <1>1
    <3> QED BY <3>1 DEF Cell
  <2>3. Ch(y) /\ Value(y) = Value(p) BY <1>1, <2>2 DEF Ch, Value
  <2> HIDE DEF y
  <2>4. Value(y) \in Nat /\ Value(p) \in Nat /\ Value(q) \in Nat BY <2>1, CellFacts
  <2>5. q # y BY <2>3, <2>4
  <2>6. Rank(y) < Rank(q) BY <2>1, <2>5, RankFacts, Sizes
  <2> QED BY <1>1, <2>1, <2>3, <2>4, <2>6 DEF WrittenInOrder
<1>3. \A m \in 1 .. Length["channels"] :
        crsf_receive_buffer'[Around(p, m - 1)] = Cell(crsf_receive_buffer[p].frame, m)
  BY <1>1, <1>2, PutCells
<1>4. Around(p, 1 - 1) = p /\ 1 \in 1 .. Length["channels"] BY AroundIs, Sizes
<1>5. p # write.at BY <1>2, <1>4
<1>6. crsf_receive_buffer'[p] = crsf_receive_buffer[p] BY <1>5, PutCells
<1>7. Ch(p)' /\ Value(p)' = Value(p) BY <1>1, <1>6 DEF Ch, Value
<1> QED BY <1>3, <1>6, <1>7 DEF Whole

(* A byte that comes leaves the search right. *)
LEMMA PutSearch ==
  ASSUME RcInv, RcTypeOK', NEW f \in Frame, NEW n \in Nat, Put(f, n),
         count' \in Nat, count' >= count, f.type = "channels" => f.value = count',
         UNCHANGED <<rc_pc, i, crsf_channels>>
  PROVE  Search'
<1>1. Latest' = Latest /\ Latest \in Nat /\ count \in Nat /\ Latest <= count /\ i \in Nat
  BY LatestIs DEF RcInv, Search, RcTypeOK, Latest
<1>2. PassedNew'
  <2> SUFFICES ASSUME rc_pc' = "scan", NEW q \in Position, q < i', Whole(q)'
               PROVE  arrived' /\ Value(q)' = count'
    BY DEF PassedNew
  <2>1. arrived' /\ ~arrived BY DEF Put
  <2>2. ~Whole(q) BY <2>1 DEF RcInv, Search, PassedNew
  <2> QED BY <2>1, <2>2, PutWhole DEF RcInv
<1>3. NoneOlder'
  <2> SUFFICES ASSUME NEW q \in Position, q >= i', Whole(q)', Value(q)' < Latest'
               PROVE  \E p \in Position : i' <= p /\ p < q /\ Whole(p)' /\ Value(p)' = Latest'
    BY DEF NoneOlder
  <2>1. Value(q)' # count' BY <1>1
  <2>2. Whole(q) /\ Value(q)' = Value(q) BY <2>1, PutWhole DEF RcInv
  <2>3. PICK p \in Position : i <= p /\ p < q /\ Whole(p) /\ Value(p) = Latest
    BY <1>1, <2>2 DEF RcInv, Search, NoneOlder
  <2>4. Whole(p)' /\ Value(p)' = Value(p) BY <1>1, <2>2, <2>3, PutKeeps DEF RcInv
  <2> QED BY <1>1, <2>3, <2>4
<1> QED BY <1>1, <1>2, <1>3 DEF Search, RcInv

LEMMA RcInitInv == RcInit => RcInv
<1> SUFFICES ASSUME RcInit PROVE RcInv
  OBVIOUS
<1>1. RcTypeOK BY InitType
<1>2. \A x \in Position : ~Ch(x) BY DEF RcInit, Ch, Empty, Cell, NoFrame
<1>3. Latest = 0
  <2>1. 1 \in 1 .. Length["channels"] BY Sizes
  <2> QED BY <2>1 DEF RcInit, Latest, Empty, Cell, NoFrame
<1>4. WrittenInOrder BY <1>2 DEF WrittenInOrder
<1>5. Newest BY <1>2 DEF Newest, RcInit, NoFrame
<1>6. Search BY <1>2, <1>3 DEF Search, PassedNew, NoneOlder, Whole, RcInit
<1> QED BY <1>1, <1>4, <1>5, <1>6 DEF RcInv

LEMMA PutInv ==
  ASSUME RcInv, RcTypeOK', NEW f \in Frame, NEW n \in Nat, Put(f, n),
         count' >= count, f.type = "channels" => f.value = count',
         UNCHANGED <<rc_pc, i, crsf_channels>>
  PROVE  RcInv'
<1>1. count \in Nat /\ count' \in Nat BY Sizes DEF RcInv, RcTypeOK
<1> QED BY <1>1, PutOrder, PutSearch DEF RcInv

(* Only the search reads the buffer. *)
LEMMA SameOrder ==
  ASSUME WrittenInOrder, Newest, UNCHANGED <<crsf_receive_buffer, write, count>>
  PROVE  WrittenInOrder' /\ Newest'
BY DEF WrittenInOrder, Newest, Ch, Value, Rank

(* What was found is not older than what was read before, and nothing in    *)
(* front of it is older than it.                                           *)
LEMMA FoundNewest ==
  ASSUME RcInv, NEW g, rc_pc = "scan", g = i, g \in Position, Whole(g)
  PROVE  /\ Value(g) >= Latest /\ Value(g) <= count /\ Value(g) \in Nat
         /\ \A q \in Position : Whole(q) /\ Value(q) < Value(g) => q > g
<1>1. /\ count \in Nat /\ Latest \in Nat /\ g \in Nat
      /\ \A q \in Position : q \in Nat /\ Value(q) \in Nat
  BY CellFacts, LatestIs DEF RcInv, RcTypeOK, Position
<1>2. Value(g) <= count BY DEF RcInv, Newest, Whole
<1>3. Value(g) >= Latest
  <2> SUFFICES ASSUME Value(g) < Latest PROVE FALSE BY <1>1
  <2>1. PICK p \in Position : i <= p /\ p < g
    BY <1>1 DEF RcInv, Search, NoneOlder
  <2> QED BY <1>1, <2>1
<1>4. ASSUME NEW q \in Position, Whole(q), Value(q) < Value(g), ~(q > g) PROVE FALSE
  <2>1. q # g BY <1>1, <1>4
  <2>2. q < i BY <1>1, <1>4, <2>1
  <2>3. Value(q) = count BY <1>4, <2>2 DEF RcInv, Search, PassedNew
  <2> QED BY <1>1, <1>2, <1>4, <2>3
<1> QED BY <1>1, <1>2, <1>3, <1>4

LEMMA WholeBegins ==
  ASSUME RcTypeOK, NEW q \in Position, Whole(q)
  PROVE  /\ IsSync(crsf_receive_buffer[q]) /\ Valid(crsf_receive_buffer, q)
         /\ Header(crsf_receive_buffer, q) = crsf_receive_buffer[q].frame
<1>1. Around(q, 1 - 1) = q /\ 1 \in 1 .. Length["channels"] BY AroundIs, Sizes
<1>2. crsf_receive_buffer[q] = Cell(crsf_receive_buffer[q].frame, 1) BY <1>1 DEF Whole
<1>3. crsf_receive_buffer[q].part = 1 BY <1>2 DEF Cell
<1> QED BY <1>3, ValidIs DEF IsSync, Header

(* The search goes on behind a place where no frame begins. *)
LEMMA SearchGoesOn ==
  ASSUME RcInv, RcTypeOK', rc_pc = "scan", rc_pc' = "scan", i \in Position, i' = i + 1, ~Whole(i),
         UNCHANGED <<crsf_receive_buffer, write, count, arrived, crsf_channels>>
  PROVE  RcInv'
<1>1. WrittenInOrder' /\ Newest' BY SameOrder DEF RcInv
<1>2. \A q \in Position : Whole(q)' = Whole(q) /\ Value(q)' = Value(q) BY DEF Whole, Ch, Value
<1>3. Latest' = Latest BY DEF Latest
<1>4. i \in Nat /\ \A q \in Position : q \in Nat BY DEF Position
<1>5. PassedNew'
  <2> SUFFICES ASSUME NEW q \in Position, q < i', Whole(q)
               PROVE  arrived /\ Value(q) = count
    BY <1>2 DEF PassedNew
  <2>1. q < i BY <1>4
  <2> QED BY <2>1 DEF RcInv, Search, PassedNew
<1>6. NoneOlder'
  <2> SUFFICES ASSUME NEW q \in Position, q >= i', Whole(q), Value(q) < Latest
               PROVE  \E p \in Position : i' <= p /\ p < q /\ Whole(p) /\ Value(p) = Latest
    BY <1>2, <1>3 DEF NoneOlder
  <2>1. q >= i BY <1>4
  <2>2. PICK p \in Position : i <= p /\ p < q /\ Whole(p) /\ Value(p) = Latest
    BY <2>1 DEF RcInv, Search, NoneOlder
  <2>3. p # i BY <2>2
  <2> QED BY <1>4, <2>2, <2>3
<1>7. Latest' <= count' /\ rc_pc' # "delay" BY <1>3 DEF RcInv, Search
<1> QED BY <1>1, <1>5, <1>6, <1>7 DEF RcInv, Search

(* The search ends without a new frame with channels. *)
LEMMA SearchEnds ==
  ASSUME RcInv, RcTypeOK', rc_pc = "scan", rc_pc' = "delay", i' = 0,
         UNCHANGED <<crsf_receive_buffer, write, count, crsf_channels>>
  PROVE  RcInv'
<1>1. WrittenInOrder' /\ Newest' BY SameOrder DEF RcInv
<1>2. \A q \in Position : Whole(q)' = Whole(q) /\ Value(q)' = Value(q) BY DEF Whole, Ch, Value
<1>3. Latest' = Latest /\ Latest \in Nat /\ count \in Nat /\ Latest <= count
  BY LatestIs, Sizes DEF Latest, RcInv, Search, RcTypeOK
<1>4. i \in Nat /\ \A q \in Position : q \in Nat BY Sizes DEF Position, RcInv, RcTypeOK
<1>5. NoneOlder'
  <2> SUFFICES ASSUME NEW q \in Position, Whole(q), Value(q) < Latest
               PROVE  \E p \in Position : 0 <= p /\ p < q /\ Whole(p) /\ Value(p) = Latest
    BY <1>2, <1>3 DEF NoneOlder
  <2>1. q >= i
    <3> SUFFICES ASSUME q < i PROVE FALSE BY <1>4
    <3>1. Value(q) = count BY DEF RcInv, Search, PassedNew
    <3> QED BY <1>3, <3>1
  <2>2. PICK p \in Position : i <= p /\ p < q /\ Whole(p) /\ Value(p) = Latest
    BY <2>1 DEF RcInv, Search, NoneOlder
  <2> QED BY <1>4, <2>2
<1> QED BY <1>1, <1>3, <1>5 DEF RcInv, Search, PassedNew

(* The search ends with a new frame. *)
LEMMA SearchFinds ==
  ASSUME RcInv, RcTypeOK', rc_pc = "scan", rc_pc' = "delay", i \in Position, i' = 0, Whole(i),
         crsf_channels' = ChannelsPacked(crsf_receive_buffer, i),
         UNCHANGED <<crsf_receive_buffer, write, count>>
  PROVE  RcInv' /\ Latest' >= Latest
<1>1. WrittenInOrder' /\ Newest' BY SameOrder DEF RcInv
<1>2. \A q \in Position : Whole(q)' = Whole(q) /\ Value(q)' = Value(q) BY DEF Whole, Ch, Value
<1>3. Latest' = Value(i)
  <2>1. Around(i, 1 - 1) = i /\ 1 \in 1 .. Length["channels"] BY AroundIs, Sizes
  <2> QED BY <2>1 DEF Latest, Value, ChannelsPacked
<1>4. /\ Value(i) >= Latest /\ Value(i) <= count
      /\ \A q \in Position : Whole(q) /\ Value(q) < Value(i) => q > i
  BY FoundNewest
<1>5. i \in Nat BY DEF Position
<1>6. NoneOlder'
  <2> SUFFICES ASSUME NEW q \in Position, Whole(q), Value(q) < Value(i)
               PROVE  \E p \in Position : 0 <= p /\ p < q /\ Whole(p) /\ Value(p) = Value(i)
    BY <1>2, <1>3 DEF NoneOlder
  <2> QED BY <1>4, <1>5
<1> QED BY <1>1, <1>3, <1>4, <1>6 DEF RcInv, Search, PassedNew

LEMMA InvestigateInv ==
  ASSUME RcInv, RcTypeOK', Investigate
  PROVE  RcInv' /\ Latest' >= Latest
<1> DEFINE valid == Valid(crsf_receive_buffer, i)
           frame == Header(crsf_receive_buffer, i)
<1>1. /\ rc_pc = "scan" /\ i < Size
      /\ crsf_channels' = IF valid /\ frame.type = "channels"
                          THEN ChannelsPacked(crsf_receive_buffer, i) ELSE crsf_channels
      /\ \E found \in Found(crsf_receive_buffer, i) :
           IF found THEN rc_pc' = "delay" /\ i' = 0 ELSE rc_pc' = rc_pc /\ i' = i + 1
      /\ UNCHANGED <<crsf_receive_buffer, write, count, arrived>>
  BY DEF Investigate, line
<1>2. i \in Position /\ Latest \in Nat BY <1>1, LatestIs, Sizes DEF RcInv, RcTypeOK, Position
<1>3. Whole(i) <=> valid /\ frame.type = "channels"
  <2>1. Whole(i) => valid /\ frame.type = "channels" BY <1>2, WholeBegins DEF RcInv, Whole, Ch
  <2>2. valid /\ frame.type = "channels" => Ch(i) BY DEF Header, NoFrame, Ch
  <2> QED BY <1>2, <2>1, <2>2, ValidIs DEF RcInv
<1>4. CASE Whole(i)
  <2>1. Found(crsf_receive_buffer, i) = {TRUE} BY <1>3, <1>4 DEF Found
  <2>2. rc_pc' = "delay" /\ i' = 0 BY <1>1, <2>1
  <2> QED BY <1>1, <1>2, <1>3, <1>4, <2>2, SearchFinds
<1>5. CASE ~Whole(i)
  <2>1. crsf_channels' = crsf_channels BY <1>1, <1>3, <1>5
  <2>2. Latest' >= Latest BY <1>2, <2>1 DEF Latest
  <2>3. CASE rc_pc' = "delay" /\ i' = 0 BY <1>1, <2>1, <2>2, <2>3, SearchEnds
  <2>4. CASE rc_pc' = rc_pc /\ i' = i + 1 BY <1>1, <1>2, <1>5, <2>1, <2>2, <2>4, SearchGoesOn
  <2> QED BY <1>1, <2>3, <2>4
<1> QED BY <1>4, <1>5

LEMMA RcNextInv == RcInv /\ [RcNext]_rc_vars => RcInv' /\ Latest' >= Latest
<1> SUFFICES ASSUME RcInv, [RcNext]_rc_vars PROVE RcInv' /\ Latest' >= Latest
  OBVIOUS
<1>1. RcTypeOK /\ RcTypeOK' BY NextType DEF RcInv
<1>2. Latest \in Nat /\ count \in Nat BY <1>1, LatestIs, Sizes DEF RcTypeOK
<1>3. CASE SendPart
  <2>1. /\ write.frame \in Frame /\ write.part + 1 \in Nat /\ Put(write.frame, write.part + 1)
        /\ UNCHANGED <<count, rc_pc, i, crsf_channels>>
    BY <1>1, <1>3, SendPartIs DEF SendPart
  <2>2. write.frame.type = "channels" => write.frame.value = count' BY <2>1 DEF RcInv, Newest
  <2> QED BY <1>1, <1>2, <2>1, <2>2, PutInv DEF Latest
<1>4. CASE SendChannels
  <2> DEFINE f == [type |-> "channels", value |-> count']
  <2>1. f \in Frame /\ Put(f, 1) /\ count' = count + 1 /\ UNCHANGED <<rc_pc, i, crsf_channels>>
    BY <1>1, <1>4, SendChannelsIs DEF SendChannels
  <2> QED BY <1>1, <1>2, <2>1, PutInv DEF Latest
<1>5. CASE SendStatistics
  <2> DEFINE f == [type |-> "statistics", value |-> IF radio THEN Good ELSE Bad]
  <2>1. f \in Frame /\ Put(f, 1) /\ UNCHANGED <<count, rc_pc, i, crsf_channels>>
    BY <1>5, StatisticsFrame DEF SendStatistics
  <2>2. f.type # "channels" OBVIOUS
  <2> QED BY <1>1, <1>2, <2>1, <2>2, PutInv DEF Latest
<1>6. CASE UNCHANGED <<crsf_receive_buffer, write, count, rc_pc, i, arrived, crsf_channels>>
  <2>1. WrittenInOrder' /\ Newest' BY <1>6, SameOrder DEF RcInv
  <2>2. Search' BY <1>6 DEF RcInv, Search, PassedNew, NoneOlder, Whole, Ch, Value, Latest
  <2> QED BY <1>1, <1>2, <1>6, <2>1, <2>2 DEF RcInv, Latest
<1>7. CASE ScanNext
  <2>1. /\ rc_pc = "scan" /\ i < Size /\ ~IsSync(crsf_receive_buffer[i]) /\ i' = i + 1 /\ rc_pc' = rc_pc
        /\ UNCHANGED <<crsf_receive_buffer, write, count, arrived, crsf_channels>>
    BY <1>7 DEF ScanNext, line
  <2>2. i \in Position BY <1>1, <2>1, Sizes DEF RcTypeOK, Position
  <2>3. ~Whole(i) BY <1>1, <2>1, <2>2, WholeBegins
  <2> QED BY <1>1, <1>2, <2>1, <2>2, <2>3, SearchGoesOn DEF Latest
<1>8. CASE Investigate BY <1>1, <1>8, InvestigateInv
<1>9. CASE ScanEnd
  <2>1. /\ rc_pc = "scan" /\ rc_pc' = "delay" /\ i' = 0
        /\ UNCHANGED <<crsf_receive_buffer, write, count, crsf_channels>>
    BY <1>9 DEF ScanEnd, line
  <2> QED BY <1>1, <1>2, <2>1, SearchEnds DEF Latest
<1>10. CASE RcDelay
  <2>1. /\ rc_pc = "delay" /\ i' = i
        /\ UNCHANGED <<crsf_receive_buffer, write, count, crsf_channels>>
    BY <1>10 DEF RcDelay
  <2>2. i = 0 BY <2>1 DEF RcInv, Search
  <2>3. WrittenInOrder' /\ Newest' BY <2>1, SameOrder DEF RcInv
  <2>4. PassedNew' BY <2>1, <2>2 DEF PassedNew, Position
  <2>5. NoneOlder' BY <2>1 DEF RcInv, Search, NoneOlder, Whole, Ch, Value, Latest
  <2>6. Latest' = Latest /\ Latest' <= count' BY <2>1 DEF RcInv, Search, Latest
  <2> QED BY <1>1, <1>2, <2>1, <2>2, <2>3, <2>4, <2>5, <2>6 DEF RcInv, Search
<1>11. LoseRadio \/ UNCHANGED rc_vars
         => UNCHANGED <<crsf_receive_buffer, write, count, rc_pc, i, arrived, crsf_channels>>
  BY DEF LoseRadio, rc_vars, line
<1> QED BY <1>3, <1>4, <1>5, <1>6, <1>7, <1>8, <1>9, <1>10, <1>11 DEF RcNext, Receiver

(* rc_receiver.c: neither the DMA channel nor the search leaves the buffer,  *)
(* and what is taken for the channels is one frame long.                   *)
THEOREM RcTypeCorrect == RcSpec => []RcTypeOK
<1>1. RcInv => RcTypeOK BY DEF RcInv
<1>2. RcInv /\ [RcNext]_rc_vars => RcInv' BY RcNextInv
<1> QED BY <1>1, <1>2, RcInitInv, PTL DEF RcSpec

(* rc_receiver.c:178-183: the channels that are read are never older than    *)
(* those read before, although the search begins at the start of the       *)
(* circular buffer, wherever the newest frame is.                          *)
THEOREM Ahead == RcSpec => NeverBack
<1>1. RcInv /\ [RcNext]_rc_vars => RcInv' BY RcNextInv
<1>2. RcInv /\ [RcNext]_rc_vars
        => [crsf_channels'[1].frame.value >= crsf_channels[1].frame.value]_rc_vars
  BY RcNextInv DEF Latest
<1> QED BY <1>1, <1>2, RcInitInv, PTL DEF RcSpec, NeverBack
=============================================================================
