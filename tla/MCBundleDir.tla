---------------------------- MODULE MCBundleDir ----------------------------
(* Bundles of two pages and one object; an injector that patches a block   *)
(* of a page and adds a page.                                              *)
EXTENDS BundleDir

Head2(t, l, by) == [title |-> t, level |-> l, by |-> by]
Author == <<Head2("intro", 1, "author"), Head2("options", 2, "author"),
            Head2("flags", 3, "author"), Head2("more", 2, "author")>>
Short == <<Head2("intro", 1, "author")>>

PageOf(s, flaws, links, figures) ==
  [sections |-> s, flaws |-> flaws, links |-> links, figures |-> figures]

MetaOf(extra) == [k \in {"module", "version", "summary"} \cup DOMAIN extra |->
                  IF k \in DOMAIN extra THEN extra[k] ELSE Text]

Gen(s, flaws, links, figures, toc, extra) ==
  [f \in {<<"module", "obj">>, <<"docs", "index">>, <<"docs", "page">>, Manifest}
         \cup (IF toc = <<>> THEN {} ELSE {Toc}) \cup (IF extra = <<>> THEN {} ELSE {<<"assets", "fig">>}) |->
     IF f = Manifest THEN MetaOf(extra)
     ELSE IF f = Toc THEN toc
     ELSE IF f = <<"docs", "page">> THEN PageOf(s, flaws, links, figures)
     ELSE PageOf(Short, {}, {}, {})]

MCBundles ==
  {Gen(s, flaws, links, figures, toc, extra) :
     s \in {Author, Short}, flaws \in {{}, {"role"}, {"sentinel"}},
     links \in {{"index"}, {"new"}}, figures \in {{}, {"fig"}},
     toc \in {<<>>, <<<<"index">>, <<"index", "page">>>>},
     extra \in {<<>>, [extra |-> Number], [extra |-> List, tag |-> ""], [tag |-> Number]}}

MCInjector ==
  <<[key |-> "page", patch |-> TRUE, title |-> "options", parent |-> "none",
     sections |-> <<Head2("options", 2, "injector"), Head2("flags", 3, "injector")>>],
    [key |-> "new", patch |-> FALSE, title |-> "intro", parent |-> "page",
     sections |-> <<Head2("intro", 1, "injector")>>]>>
=============================================================================
