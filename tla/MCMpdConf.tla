----------------------------- MODULE MCMpdConf -----------------------------
(***************************************************************************)
(* Model-checking instance of MpdConf: one device, and every file with     *)
(* some lines in its first audio_output block and some before and behind.  *)
(***************************************************************************)
EXTENDS MpdConf

CONSTANT MaxLines  \* bound: lines inside the first audio_output block

AnyText   == STRING
OneDevice == {"0"}

\* Lines outside a block.
Outside == { <<Word("music_directory"), Str("{")>>, <<Note("audio_output"), Note("{")>> }

OtherBlocks == { << <<Word("decoder"), Word("{")>>, <<Word("device"), Str("other")>>,
                    <<Word("}")>> >>,
                 << <<Word("audio_output"), Word("{")>>, <<Word("type"), Str("pulse")>>,
                    <<Word("device"), Str("other")>>, <<Word("}")>> >> }

\* Lines inside the first audio_output block.
Inside ==
  { <<Word("type"), Str("winmm")>>, <<Word("name"), Str("{"), Note("}")>>,
    <<Note("device"), Note("none")>>,
    <<Word("device"), Word("old")>>, <<Word("device"), Str("old"), Note("{")>> }

\* mpd takes a key once.
Bodies ==
  {s \in UNION {[1..n -> Inside] : n \in 0..MaxLines} :
     \A i, j \in DOMAIN s : s[i][1] = s[j][1] /\ s[i][1].kind = "word" => i = j}

SmallFiles ==
  LET blocks == { <<<<Word("audio_output"), Word("{")>>>> \o body \o <<<<Word("}")>>>> :
                    body \in Bodies }
      pre    == { <<line>> : line \in Outside } \cup
                {b \in OtherBlocks : b[1][1] # Word("audio_output")}
      post   == { <<>> } \cup OtherBlocks
  IN pre \cup {p \o b \o q : p \in pre, b \in blocks, q \in post}
=============================================================================
