--------------------------- MODULE MCDesignEditor ---------------------------
(* One cache, whose scaffold carries commentary, and one plain service.    *)
EXTENDS DesignEditor, TLC

MCNames == {"entries", "feeds"}
MCPlain == {"feeds"}
\* cache/entries/Entries.qml, service/feeds/Feeds.qml, synqt.yaml.
MCPathOrder == <<"entries", "feeds", "synqt.yaml">>

TabSymmetry == Permutations(Tabs)
=============================================================================
