--------------------------- MODULE CrcParameters ---------------------------
(***************************************************************************)
(* Named parameters of CRC.h, each with the check value that the comment   *)
(* of its function documents: the CRC of the characters "123456789".       *)
(* These are the functions that are compiled by default, and one or two    *)
(* for each kind of width of those CRCPP_INCLUDE_ESOTERIC_CRC_DEFINITIONS  *)
(* adds.                                                                   *)
(***************************************************************************)
EXTENDS Crc

Documented(width, digits, polynomial, initialValue, finalXOR, reflectInput,
           reflectOutput, check) ==
  [parameters |-> Parameters(width, digits, Hex(polynomial), Hex(initialValue),
                             Hex(finalXOR), reflectInput, reflectOutput),
   check |-> Hex(check)]

CRC_4_ITU == Documented(4, 8, <<\h3>>, <<\h0>>, <<\h0>>,
  TRUE, TRUE, <<\h7>>)
CRC_5_EPC == Documented(5, 8, <<\h9>>, <<\h9>>, <<\h0>>,
  FALSE, FALSE, <<\h0>>)
CRC_6_CDMA2000A == Documented(6, 8, <<\h27>>, <<\h3F>>, <<\h0>>,
  FALSE, FALSE, <<\hD>>)
CRC_7 == Documented(7, 8, <<\h9>>, <<\h0>>, <<\h0>>,
  FALSE, FALSE, <<\h75>>)
CRC_8 == Documented(8, 8, <<\h7>>, <<\h0>>, <<\h0>>,
  FALSE, FALSE, <<\hF4>>)
CRC_12_UMTS == Documented(12, 16, <<\h80F>>, <<\h0>>, <<\h0>>,
  FALSE, TRUE, <<\hDAF>>)
CRC_15_MPT1327 == Documented(15, 16, <<\h6815>>, <<\h0>>, <<\h1>>,
  FALSE, FALSE, <<\h2566>>)
CRC_16_ARC == Documented(16, 16, <<\h8005>>, <<\h0>>, <<\h0>>,
  TRUE, TRUE, <<\hBB3D>>)
CRC_16_BUYPASS == Documented(16, 16, <<\h8005>>, <<\h0>>, <<\h0>>,
  FALSE, FALSE, <<\hFEE8>>)
CRC_16_CCITTFALSE == Documented(16, 16, <<\h1021>>, <<\hFFFF>>, <<\h0>>,
  FALSE, FALSE, <<\h29B1>>)
CRC_16_MCRF4XX == Documented(16, 16, <<\h1021>>, <<\hFFFF>>, <<\h0>>,
  TRUE, TRUE, <<\h6F91>>)
CRC_16_GENIBUS == Documented(16, 16, <<\h1021>>, <<\hFFFF>>, <<\hFFFF>>,
  FALSE, FALSE, <<\hD64E>>)
CRC_16_KERMIT == Documented(16, 16, <<\h1021>>, <<\h0>>, <<\h0>>,
  TRUE, TRUE, <<\h2189>>)
CRC_16_X25 == Documented(16, 16, <<\h1021>>, <<\hFFFF>>, <<\hFFFF>>,
  TRUE, TRUE, <<\h906E>>)
CRC_16_XMODEM == Documented(16, 16, <<\h1021>>, <<\h0>>, <<\h0>>,
  FALSE, FALSE, <<\h31C3>>)
CRC_17_CAN == Documented(17, 32, <<\h1, \h685B>>, <<\h0, \h0>>, <<\h0, \h0>>,
  FALSE, FALSE, <<\h0, \h4F03>>)
CRC_32 == Documented(32, 32, <<\h4C1, \h1DB7>>, <<\hFFFF, \hFFFF>>, <<\hFFFF, \hFFFF>>,
  TRUE, TRUE, <<\hCBF4, \h3926>>)
CRC_32_BZIP2 == Documented(32, 32, <<\h4C1, \h1DB7>>, <<\hFFFF, \hFFFF>>, <<\hFFFF, \hFFFF>>,
  FALSE, FALSE, <<\hFC89, \h1918>>)
CRC_32_MPEG2 == Documented(32, 32, <<\h4C1, \h1DB7>>, <<\hFFFF, \hFFFF>>, <<\h0, \h0>>,
  FALSE, FALSE, <<\h376, \hE6E7>>)
CRC_32_POSIX == Documented(32, 32, <<\h4C1, \h1DB7>>, <<\h0, \h0>>, <<\hFFFF, \hFFFF>>,
  FALSE, FALSE, <<\h765E, \h7680>>)
CRC_40_GSM == Documented(40, 64, <<\h0, \h482, \h9>>, <<\h0, \h0, \h0>>, <<\hFF, \hFFFF, \hFFFF>>,
  FALSE, FALSE, <<\hD4, \h164F, \hC646>>)
CRC_64 == Documented(64, 64, <<\h42F0, \hE1EB, \hA9EA, \h3693>>, <<\h0, \h0, \h0, \h0>>, <<\h0, \h0, \h0, \h0>>,
  FALSE, FALSE, <<\h6C40, \hDF5F, \hB49, \h7347>>)

Catalogue ==
  {CRC_4_ITU, CRC_5_EPC, CRC_6_CDMA2000A, CRC_7,
   CRC_8, CRC_12_UMTS, CRC_15_MPT1327, CRC_16_ARC,
   CRC_16_BUYPASS, CRC_16_CCITTFALSE, CRC_16_MCRF4XX, CRC_16_GENIBUS,
   CRC_16_KERMIT, CRC_16_X25, CRC_16_XMODEM, CRC_17_CAN,
   CRC_32, CRC_32_BZIP2, CRC_32_MPEG2, CRC_32_POSIX,
   CRC_40_GSM, CRC_64}
=============================================================================
