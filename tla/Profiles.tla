------------------------------ MODULE Profiles ------------------------------
(***************************************************************************)
(* The client profiles (src/profiles): what a client says of itself in its *)
(* ClientHello, in the first frames of HTTP/2 and in the SETTINGS of       *)
(* HTTP/3.                                                                 *)
(*                                                                         *)
(* Extensions, groups and settings are written by their numbers on the     *)
(* wire, as a ja3 string writes them; 2570 is utls's GREASE_PLACEHOLDER,   *)
(* which stands for a random reserved value.  Of the extensions only those *)
(* are kept with their contents that must fit together: the groups, the    *)
(* key shares, the trust anchors and whether the signature algorithms      *)
(* begin with a reserved value.  Of HTTP/2 and HTTP/3 settings the numbers *)
(* are kept, not the values.                                               *)
(***************************************************************************)
EXTENDS ExtensionData

\* A capture of 28 records.
CONSTANT chrome152TrustAnchorsCapture

ASSUME CaptureAssumption == chrome152TrustAnchorsCapture \in Seq(Byte)

GREASE == 2570
Padding == 21
PreSharedKey == 41
SupportedVersions == 43
PSKKeyExchangeModes == 45
KeyShares == 51
SupportedCurves == 10
SignatureAlgorithms == 13
ALPN == 16
ALPS == {17513, 17613}
extensionTrustAnchors == 51764

\* The groups of a hello and those it sends key shares for.
Groups(curves, keyShares) == [curves |-> curves, keyShares |-> keyShares]

\* The HTTP/2 part: SETTINGS and their order, the order of the pseudo headers
\* (by their first letters), PRIORITY frames (a stream and the stream it depends
\* on), and the stream HEADERS depends on, None if it says nothing of it.
Http2(settings, settingsOrder, pseudoHeaderOrder) ==
  [settings |-> settings, settingsOrder |-> settingsOrder,
   pseudoHeaderOrder |-> pseudoHeaderOrder,
   priorities |-> <<>>, headerPriority |-> None]

\* The HTTP/3 part.
Http3(settings, settingsOrder, priorityParam, pseudoHeaderOrder) ==
  [settings |-> settings, settingsOrder |-> settingsOrder,
   priorityParam |-> priorityParam, pseudoHeaderOrder |-> pseudoHeaderOrder]

NoHttp3 == Http3({}, <<>>, 0, <<>>)

\* A profile with a SpecFactory, by the extensions the factory returns.  anchors
\* is the capture its trust anchors come from.
Profile(extensions, groups, http2) ==
  [extensions |-> extensions, groups |-> groups, anchors |-> None,
   greaseSignature |-> FALSE, http2 |-> http2, http3 |-> NoHttp3]

\* A profile whose hello is one that utls has built in.
Utls(http2) == Profile(None, None, http2)

\* HEADERS depends on stream 0.
Dependent(http2) == [http2 EXCEPT !.headerPriority = 0]

\* The streams by which Firefox groups its requests.
Tree(http2) ==
  [http2 EXCEPT !.priorities = <<<<3, 0>>, <<5, 0>>, <<7, 0>>, <<9, 7>>,
                                 <<11, 3>>, <<13, 0>>>>,
                !.headerPriority = 13]

Masp == <<"m", "a", "s", "p">>
Mpas == <<"m", "p", "a", "s">>
Mspa == <<"m", "s", "p", "a">>
Msap == <<"m", "s", "a", "p">>

\* X25519 is 29, the NIST curves are 23 to 25, X25519MLKEM768 is 4588,
\* X25519Kyber768Draft00 is 25497, and 256 and 257 are FFDHE groups.
ChromeMLKEM == Groups(<<GREASE, 4588, 29, 23, 24>>, <<GREASE, 4588, 29>>)
ChromeKyber == Groups(<<GREASE, 25497, 29, 23, 24>>, <<GREASE, 25497, 29>>)
ChromeX25519 == Groups(<<GREASE, 29, 23, 24>>, <<GREASE, 29>>)
FirefoxMLKEM == Groups(<<4588, 29, 23, 24, 25, 256, 257>>, <<4588, 29, 23>>)
FirefoxTwo == Groups(<<4588, 29, 23, 24, 25, 256, 257>>, <<4588, 29>>)
FirefoxX25519 == Groups(<<29, 23, 24, 25, 256, 257>>, <<29, 23>>)
SafariMLKEM == Groups(<<GREASE, 4588, 29, 23, 24, 25>>, <<GREASE, 4588, 29>>)
SafariX25519 == Groups(<<GREASE, 29, 23, 24, 25>>, <<GREASE, 29>>)
AndroidX25519 == Groups(<<29, 23, 24>>, <<29>>)
AndroidNoShare == Groups(<<29, 23, 24>>, <<>>)
Android7NoShare == Groups(<<23, 24, 25>>, <<>>)
NikeAndroidGroups == Groups(<<29, 23, 24>>, <<GREASE, 29>>)
P256NoShare == Groups(<<23>>, <<>>)

\* The profiles with an HTTP/3 part have one of these.
ChromeHttp3 == Http3({1, 7}, <<1, 6, 7, 51>>, 984832, Masp)
FirefoxHttp3 ==
  Http3({1, 7, 8, 51, 16765559, 727725890},
        <<1, 7, 727725890, 16765559, 51, 8>>, 0, Msap)

-----------------------------------------------------------------------------
(* Browsers, internal_browser_profiles.go *)

Chrome_152_PSK ==
  [Profile(<<2570, 17613, 43, 18, 65037, 51, 13, 10, 27, 23, 35, 0, 65281,
           45, 11, 5, 16, 51764, 2570, 41>>,
           ChromeMLKEM, Http2({1, 2, 4, 6}, <<1, 2, 4, 6>>, Masp))
   EXCEPT !.anchors = chrome152TrustAnchorsCapture,
          !.greaseSignature = TRUE]
Chrome_152 ==
  [Profile(<<2570, 51, 0, 17613, 65281, 10, 27, 35, 5, 23, 43, 13, 18, 11,
           65037, 16, 45, 51764, 2570>>,
           ChromeMLKEM, Http2({1, 2, 4, 6}, <<1, 2, 4, 6>>, Masp))
   EXCEPT !.anchors = chrome152TrustAnchorsCapture,
          !.greaseSignature = TRUE]
Chrome_150_PSK ==
  Profile(<<2570, 17613, 43, 18, 65037, 51, 13, 10, 27, 23, 35, 0, 65281,
          45, 11, 5, 16, 2570, 41>>,
          ChromeMLKEM, Http2({1, 2, 4, 6}, <<1, 2, 4, 6>>, Masp))
Chrome_150 ==
  Profile(<<2570, 51, 0, 17613, 65281, 10, 27, 35, 5, 23, 43, 13, 18, 11,
          65037, 16, 45, 2570>>,
          ChromeMLKEM, Http2({1, 2, 4, 6}, <<1, 2, 4, 6>>, Masp))
Chrome_146_PSK ==
  [Profile(<<2570, 17613, 43, 18, 65037, 51, 13, 10, 27, 23, 35, 0, 65281,
           45, 11, 5, 16, 51764, 2570, 41>>,
           ChromeMLKEM, Http2({1, 2, 4, 6}, <<1, 2, 4, 6>>, Masp))
   EXCEPT !.anchors = <<0, 0>>]
Chrome_146 ==
  [Profile(<<2570, 51, 0, 17613, 65281, 10, 27, 35, 5, 23, 43, 13, 18, 11,
           65037, 16, 45, 51764, 2570>>,
           ChromeMLKEM, Http2({1, 2, 4, 6}, <<1, 2, 4, 6>>, Masp))
   EXCEPT !.anchors = <<0, 0>>]
Chrome_144_PSK ==
  [Profile(<<2570, 17613, 43, 18, 65037, 51, 13, 10, 27, 23, 35, 0, 65281,
           45, 11, 5, 16, 2570, 41>>,
           ChromeMLKEM, Http2({1, 2, 4, 6}, <<1, 2, 4, 6>>, Masp))
   EXCEPT !.http3 = ChromeHttp3]
Chrome_144 ==
  [Profile(<<2570, 51, 0, 17613, 65281, 10, 27, 35, 5, 23, 43, 13, 18, 11,
           65037, 16, 45, 2570>>,
           ChromeMLKEM, Http2({1, 2, 4, 6}, <<1, 2, 4, 6>>, Masp))
   EXCEPT !.http3 = ChromeHttp3]
Chrome_133_PSK ==
  Profile(<<2570, 18, 0, 65037, 65281, 23, 5, 11, 35, 17613, 51, 13, 10,
          16, 43, 45, 27, 2570, 41>>,
          ChromeMLKEM, Http2({1, 2, 4, 6}, <<1, 2, 4, 6>>, Masp))
Chrome_133 ==
  Profile(<<2570, 35, 13, 17613, 51, 18, 11, 43, 5, 16, 0, 65037, 27, 10,
          45, 23, 65281, 2570>>,
          ChromeMLKEM, Http2({1, 2, 4, 6}, <<1, 2, 4, 6>>, Masp))
Chrome_117 ==
  Profile(<<2570, 45, 0, 16, 13, 43, 17513, 10, 23, 35, 27, 18, 5, 51,
          65281, 11, 2570, 21>>,
          ChromeX25519, Http2({1, 2, 4, 6}, <<1, 2, 4, 6>>, Masp))
Chrome_124 ==
  Profile(<<2570, 27, 18, 23, 17513, 16, 43, 13, 11, 0, 35, 10, 65037, 5,
          65281, 45, 51, 2570>>,
          ChromeKyber, Http2({1, 2, 4, 6}, <<1, 2, 4, 6>>, Masp))
Chrome_120 ==
  Profile(<<2570, 0, 45, 43, 5, 23, 35, 13, 65281, 16, 65037, 18, 51, 10,
          11, 17513, 27, 2570>>,
          ChromeX25519, Http2({1, 2, 4, 6}, <<1, 2, 4, 6>>, Masp))
Chrome_112 == Utls(Http2({1, 2, 3, 4, 6}, <<1, 2, 3, 4, 6>>, Masp))
Chrome_116_PSK == Utls(Http2({1, 2, 3, 4, 6}, <<1, 2, 3, 4, 6>>, Masp))
Chrome_116_PSK_PQ == Utls(Http2({1, 2, 3, 4, 6}, <<1, 2, 3, 4, 6>>, Masp))
Chrome_111 == Utls(Http2({1, 2, 3, 4, 6}, <<1, 2, 3, 4, 6>>, Masp))
Chrome_110 == Utls(Http2({1, 2, 3, 4, 6}, <<1, 2, 3, 4, 6>>, Masp))
Chrome_109 == Utls(Http2({1, 2, 3, 4, 6}, <<1, 2, 3, 4, 6>>, Masp))
Chrome_108 == Utls(Http2({1, 2, 3, 4, 6}, <<1, 2, 3, 4, 6>>, Masp))
Chrome_107 == Utls(Http2({1, 2, 3, 4, 6}, <<1, 2, 3, 4, 6>>, Masp))
Chrome_106 == Utls(Http2({1, 2, 3, 4, 6}, <<1, 2, 3, 4, 6>>, Masp))
Chrome_105 == Utls(Http2({1, 3, 4, 6}, <<1, 3, 4, 6>>, Masp))
Chrome_104 == Utls(Http2({1, 3, 4, 6}, <<1, 3, 4, 6>>, Masp))
Chrome_103 == Utls(Http2({1, 3, 4, 6}, <<1, 3, 4, 6>>, Masp))
Safari_15_6_1 == Utls(Http2({3, 4}, <<4, 3>>, Mspa))
Safari_16_0 == Utls(Http2({3, 4}, <<4, 3>>, Mspa))
Safari_Ipad_15_6 == Utls(Http2({3, 4}, <<4, 3>>, Mspa))
Safari_IOS_17_0 ==
  Profile(<<2570, 0, 23, 65281, 10, 11, 16, 5, 13, 18, 51, 45, 43, 27,
          2570, 21>>,
          SafariX25519, Http2({2, 3, 4}, <<2, 4, 3>>, Mspa))
Safari_IOS_26_0 ==
  Profile(<<2570, 0, 23, 65281, 10, 11, 16, 5, 13, 18, 51, 45, 43, 27,
          2570>>,
          SafariMLKEM, Http2({2, 3, 4, 9}, <<2, 3, 4, 9>>, Msap))
Safari_IOS_18_5 ==
  Profile(<<2570, 0, 23, 65281, 10, 11, 16, 5, 13, 18, 51, 45, 43, 27,
          2570, 21>>,
          SafariX25519, Dependent(Http2({2, 3, 4, 9}, <<2, 3, 4, 9>>, Msap)))
Safari_IOS_18_0 ==
  Profile(<<2570, 0, 23, 65281, 10, 11, 16, 5, 13, 18, 51, 45, 43, 27,
          2570, 21>>,
          SafariX25519, Http2({2, 3, 4, 8, 9}, <<2, 3, 4, 8, 9>>, Msap))
Safari_IOS_16_0 == Utls(Http2({3, 4}, <<4, 3>>, Mspa))
Safari_IOS_15_5 == Utls(Http2({3, 4}, <<4, 3>>, Mspa))
Safari_IOS_15_6 == Utls(Http2({3, 4}, <<4, 3>>, Mspa))
Firefox_117 ==
  Profile(<<0, 23, 65281, 10, 11, 35, 16, 5, 34, 51, 43, 13, 45, 28, 21>>,
          FirefoxX25519, Tree(Http2({1, 4, 5}, <<1, 4, 5>>, Mpas)))
Firefox_110 == Utls(Tree(Http2({1, 4, 5}, <<1, 4, 5>>, Mpas)))
Firefox_108 == Utls(Tree(Http2({1, 4, 5}, <<1, 4, 5>>, Mpas)))
Firefox_106 == Utls(Tree(Http2({1, 4, 5}, <<1, 4, 5>>, Mpas)))
Firefox_105 == Utls(Tree(Http2({1, 4, 5}, <<1, 4, 5>>, Mpas)))
Firefox_104 == Utls(Tree(Http2({1, 4, 5}, <<1, 4, 5>>, Mpas)))
Firefox_102 == Utls(Tree(Http2({1, 4, 5}, <<1, 4, 5>>, Mpas)))
Opera_90 == Utls(Http2({1, 3, 4, 6}, <<1, 3, 4, 6>>, Masp))
Opera_91 == Utls(Http2({1, 3, 4, 6}, <<1, 3, 4, 6>>, Masp))
Opera_89 == Utls(Http2({1, 3, 4, 6}, <<1, 3, 4, 6>>, Masp))
Brave_146 ==
  Profile(<<2570, 35, 43, 45, 65281, 16, 10, 23, 65037, 0, 51, 27, 17613,
          18, 13, 11, 5, 2570>>,
          ChromeMLKEM, Dependent(Http2({1, 2, 4, 6}, <<1, 2, 4, 6>>, Masp)))
Brave_146_PSK ==
  Profile(<<2570, 35, 43, 45, 65281, 16, 10, 23, 65037, 0, 51, 27, 17613,
          18, 13, 11, 5, 2570, 41>>,
          ChromeMLKEM, Dependent(Http2({1, 2, 4, 6}, <<1, 2, 4, 6>>, Masp)))

-----------------------------------------------------------------------------
(* Browsers, contributed_browser_profiles.go *)

Firefox_148 ==
  [Profile(<<0, 23, 65281, 10, 11, 35, 16, 5, 34, 18, 51, 43, 13, 45, 28,
           27, 65037>>,
           FirefoxMLKEM, Dependent(Http2({1, 2, 4, 5}, <<1, 2, 4, 5>>, Mpas)))
   EXCEPT !.http3 = FirefoxHttp3]
Firefox_147 ==
  [Profile(<<0, 23, 65281, 10, 11, 35, 16, 5, 34, 18, 51, 43, 13, 45, 28,
           27, 65037>>,
           FirefoxMLKEM, Dependent(Http2({1, 2, 4, 5}, <<1, 2, 4, 5>>, Mpas)))
   EXCEPT !.http3 = FirefoxHttp3]
Firefox_147_PSK ==
  [Profile(<<0, 23, 65281, 10, 11, 16, 5, 34, 51, 43, 13, 45, 28, 27,
           65037, 41>>,
           FirefoxTwo, Dependent(Http2({1, 2, 4, 5}, <<1, 2, 4, 5>>, Mpas)))
   EXCEPT !.http3 = FirefoxHttp3]
Firefox_146_PSK ==
  Profile(<<0, 23, 65281, 10, 11, 16, 5, 34, 18, 51, 43, 13, 45, 28, 27,
          65037, 41>>,
          FirefoxMLKEM, Dependent(Http2({1, 2, 4, 5}, <<1, 2, 4, 5>>, Mpas)))
Firefox_135 ==
  Profile(<<0, 23, 65281, 10, 11, 16, 5, 34, 18, 51, 43, 13, 28, 27,
          65037>>,
          FirefoxMLKEM, Http2({1, 2, 4, 5}, <<1, 2, 4, 5>>, Mpas))
Firefox_133 ==
  Profile(<<0, 23, 65281, 10, 11, 16, 5, 34, 51, 43, 13, 28, 27, 65037>>,
          FirefoxMLKEM, Http2({1, 2, 4, 5}, <<1, 2, 4, 5>>, Mpas))
Chrome_130_PSK ==
  Profile(<<2570, 13, 65037, 65281, 18, 27, 16, 5, 10, 17513, 11, 51, 35,
          43, 45, 0, 23, 2570, 41>>,
          ChromeX25519, Http2({1, 2, 4, 6}, <<1, 2, 4, 6>>, Masp))
Chrome_131_PSK ==
  Profile(<<2570, 13, 65037, 65281, 18, 27, 16, 5, 10, 17513, 11, 51, 35,
          43, 45, 0, 23, 2570, 41>>,
          ChromeMLKEM, Http2({1, 2, 4, 6}, <<1, 2, 4, 6>>, Masp))
Chrome_131 ==
  Profile(<<2570, 13, 65037, 65281, 18, 27, 16, 5, 10, 17513, 11, 51, 35,
          43, 45, 0, 23, 2570>>,
          ChromeMLKEM, Http2({1, 2, 4, 6}, <<1, 2, 4, 6>>, Masp))
Firefox_132 ==
  Profile(<<0, 23, 65281, 10, 11, 16, 5, 34, 51, 43, 13, 28, 27, 65037>>,
          FirefoxMLKEM, Http2({1, 2, 4, 5, 9}, <<1, 2, 4, 5, 9>>, Mpas))
Firefox_123 ==
  Profile(<<0, 23, 65281, 10, 11, 35, 16, 5, 34, 51, 43, 13, 45, 28,
          65037>>,
          FirefoxX25519, Tree(Http2({1, 4, 5}, <<1, 4, 5>>, Mpas)))
Firefox_120 ==
  Profile(<<0, 23, 65281, 10, 11, 16, 5, 34, 51, 43, 13, 28, 65037>>,
          FirefoxX25519, Tree(Http2({1, 4, 5}, <<1, 4, 5>>, Mpas)))

-----------------------------------------------------------------------------
(* Applications, contributed_custom_profiles.go *)

ZalandoAndroidMobile ==
  Profile(<<0, 23, 65281, 10, 11, 35, 16, 5, 13, 18, 51, 45, 43, 21>>,
          AndroidX25519, Http2({1, 3, 4, 5, 6}, <<1, 3, 4, 5, 6>>, Mpas))
ZalandoIosMobile ==
  Profile(<<2570, 0, 23, 65281, 10, 11, 16, 5, 13, 18, 51, 45, 43, 27,
          2570, 21>>,
          SafariX25519, Http2({1, 3, 4, 5, 6}, <<1, 3, 4, 5, 6>>, Mpas))
NikeIosMobile ==
  Profile(<<2570, 0, 23, 65281, 10, 11, 16, 5, 13, 18, 51, 45, 43, 27,
          2570, 21>>,
          SafariX25519, Http2({1, 3, 4, 5, 6}, <<1, 3, 4, 5, 6>>, Mspa))
NikeAndroidMobile ==
  Profile(<<0, 23, 65281, 10, 11, 35, 16, 5, 13, 51, 45, 43, 21>>,
          NikeAndroidGroups, Http2({1, 3, 4, 5, 6}, <<1, 3, 4, 5, 6>>, Mpas))
CloudflareCustom ==
  Profile(<<0, 11, 10, 35, 16, 22, 23, 13>>,
          P256NoShare, Http2({1, 3, 4, 5, 6}, <<1, 3, 4, 5, 6>>, Mpas))
MMSIos ==
  Profile(<<0, 23, 65281, 10, 11, 35, 13, 51, 45, 43>>,
          AndroidX25519, Http2({1, 2, 3, 4, 5, 6}, <<1, 2, 3, 4, 5, 6>>, Mspa))
MeshIos ==
  Profile(<<2570, 0, 23, 65281, 10, 11, 16, 5, 13, 18, 51, 45, 43, 27,
          2570, 21>>,
          SafariX25519, Http2({1, 2, 3, 4, 5, 6}, <<1, 2, 3, 4, 5, 6>>, Mspa))
MeshAndroid ==
  Profile(<<2570, 0, 23, 65281, 10, 11, 35, 16, 5, 13, 18, 51, 45, 43, 27,
          17513, 2570, 21>>,
          ChromeX25519, Http2({1, 3, 4, 6}, <<1, 3, 4, 6>>, Masp))
MeshIos2 ==
  Profile(<<2570, 0, 23, 65281, 10, 11, 16, 5, 13, 18, 51, 45, 43, 27,
          2570, 21>>,
          SafariX25519, Http2({1, 3, 4}, <<1, 3, 4>>, Masp))
MeshAndroid2 ==
  Profile(<<65281, 0, 23, 35, 13, 5, 16, 11, 10>>,
          AndroidNoShare, Http2({1, 3, 4, 6}, <<1, 3, 4, 6>>, Masp))
ConfirmedIos ==
  Profile(<<2570, 0, 23, 65281, 10, 11, 16, 5, 13, 18, 51, 45, 43, 27,
          2570, 21>>,
          SafariX25519, Http2({1, 2, 3, 4, 5, 6}, <<1, 2, 3, 4, 5, 6>>, Mspa))
ConfirmedAndroid ==
  Profile(<<65281, 0, 23, 35, 13, 5, 16, 11, 10>>,
          AndroidNoShare, Dependent(Http2({4}, <<4>>, Mpas)))
ConfirmedAndroid2 ==
  Profile(<<65281, 0, 23, 35, 13, 5, 16, 11, 10, 21>>,
          AndroidNoShare, Http2({4}, <<4>>, Mpas))
Okhttp4Android10 ==
  Profile(<<0, 23, 65281, 10, 11, 35, 16, 5, 13, 51, 45, 43, 21>>,
          AndroidX25519, Dependent(Http2({4}, <<4>>, Mpas)))
Okhttp4Android11 ==
  [Okhttp4Android10 EXCEPT !.http2 =
     Dependent(Http2({4}, <<4>>, Mpas))]
Okhttp4Android12 ==
  [Okhttp4Android10 EXCEPT !.http2 =
     Dependent(Http2({4}, <<4>>, Mpas))]
Okhttp4Android13 ==
  [Okhttp4Android10 EXCEPT !.http2 =
     Dependent(Http2({4}, <<4>>, Mpas))]
Okhttp4Android9 ==
  Profile(<<65281, 0, 23, 35, 13, 5, 16, 11, 10, 21>>,
          AndroidNoShare, Dependent(Http2({4}, <<4>>, Mpas)))
Okhttp4Android8 ==
  Profile(<<65281, 0, 23, 35, 13, 5, 16, 11, 10, 21>>,
          AndroidNoShare, Dependent(Http2({4}, <<4>>, Mpas)))
Okhttp4Android7 ==
  Profile(<<65281, 0, 23, 35, 13, 16, 11, 10, 21>>,
          Android7NoShare, Dependent(Http2({4}, <<4>>, Mpas)))

-----------------------------------------------------------------------------
(* Applications, internal_custom_profiles.go *)

MMSIos2 ==
  Profile(<<0, 23, 65281, 10, 11, 35, 13, 51, 45, 43>>,
          AndroidX25519, Http2({1, 2, 3, 4, 5, 6}, <<1, 2, 3, 4, 5, 6>>, Mspa))
MMSIos3 ==
  Profile(<<2570, 0, 23, 65281, 10, 11, 16, 5, 13, 18, 51, 45, 43, 27,
          2570, 21>>,
          SafariX25519, Http2({1, 2, 3, 4, 5, 6}, <<1, 2, 3, 4, 5, 6>>, Mspa))

-----------------------------------------------------------------------------
(* profiles.go *)

DefaultClientProfile == Chrome_150

MappedTLSClients ==
  [chrome_103 |-> Chrome_103, chrome_104 |-> Chrome_104,
   chrome_105 |-> Chrome_105, chrome_106 |-> Chrome_106,
   chrome_107 |-> Chrome_107, chrome_108 |-> Chrome_108,
   chrome_109 |-> Chrome_109, chrome_110 |-> Chrome_110,
   chrome_111 |-> Chrome_111, chrome_112 |-> Chrome_112,
   chrome_116_PSK |-> Chrome_116_PSK, chrome_116_PSK_PQ |-> Chrome_116_PSK_PQ,
   chrome_117 |-> Chrome_117, chrome_120 |-> Chrome_120,
   chrome_124 |-> Chrome_124, chrome_130_PSK |-> Chrome_130_PSK,
   chrome_131 |-> Chrome_131, chrome_131_PSK |-> Chrome_131_PSK,
   chrome_133 |-> Chrome_133, chrome_133_PSK |-> Chrome_133_PSK,
   chrome_144 |-> Chrome_144, chrome_144_PSK |-> Chrome_144_PSK,
   chrome_146 |-> Chrome_146, chrome_146_PSK |-> Chrome_146_PSK,
   chrome_150 |-> Chrome_150, chrome_150_PSK |-> Chrome_150_PSK,
   chrome_152 |-> Chrome_152, chrome_152_PSK |-> Chrome_152_PSK,
   brave_146 |-> Brave_146, brave_146_PSK |-> Brave_146_PSK,
   safari_15_6_1 |-> Safari_15_6_1, safari_16_0 |-> Safari_16_0,
   safari_ipad_15_6 |-> Safari_Ipad_15_6, safari_ios_15_5 |-> Safari_IOS_15_5,
   safari_ios_15_6 |-> Safari_IOS_15_6, safari_ios_16_0 |-> Safari_IOS_16_0,
   safari_ios_17_0 |-> Safari_IOS_17_0, safari_ios_18_0 |-> Safari_IOS_18_0,
   safari_ios_18_5 |-> Safari_IOS_18_5, safari_ios_26_0 |-> Safari_IOS_26_0,
   firefox_102 |-> Firefox_102, firefox_104 |-> Firefox_104,
   firefox_105 |-> Firefox_105, firefox_106 |-> Firefox_106,
   firefox_108 |-> Firefox_108, firefox_110 |-> Firefox_110,
   firefox_117 |-> Firefox_117, firefox_120 |-> Firefox_120,
   firefox_123 |-> Firefox_123, firefox_132 |-> Firefox_132,
   firefox_133 |-> Firefox_133, firefox_135 |-> Firefox_135,
   firefox_146_PSK |-> Firefox_146_PSK, firefox_147 |-> Firefox_147,
   firefox_147_PSK |-> Firefox_147_PSK, firefox_148 |-> Firefox_148,
   opera_89 |-> Opera_89, opera_90 |-> Opera_90, opera_91 |-> Opera_91,
   zalando_android_mobile |-> ZalandoAndroidMobile,
   zalando_ios_mobile |-> ZalandoIosMobile, nike_ios_mobile |-> NikeIosMobile,
   nike_android_mobile |-> NikeAndroidMobile,
   cloudscraper |-> CloudflareCustom, mms_ios |-> MMSIos, mms_ios_1 |-> MMSIos,
   mms_ios_2 |-> MMSIos2, mms_ios_3 |-> MMSIos3, mesh_ios |-> MeshIos,
   mesh_ios_1 |-> MeshIos, mesh_ios_2 |-> MeshIos2,
   mesh_android |-> MeshAndroid, mesh_android_1 |-> MeshAndroid,
   mesh_android_2 |-> MeshAndroid2, confirmed_ios |-> ConfirmedIos,
   confirmed_android |-> ConfirmedAndroid,
   okhttp4_android_7 |-> Okhttp4Android7,
   okhttp4_android_8 |-> Okhttp4Android8,
   okhttp4_android_9 |-> Okhttp4Android9,
   okhttp4_android_10 |-> Okhttp4Android10,
   okhttp4_android_11 |-> Okhttp4Android11,
   okhttp4_android_12 |-> Okhttp4Android12,
   okhttp4_android_13 |-> Okhttp4Android13]

=============================================================================
