--------------------------- MODULE ScraperParsing ---------------------------
(***************************************************************************)
(* The pure functions of the scraper: what the targets read out of a       *)
(* page's markup (targets/jobs-ch, targets/job-ich), how a listing is      *)
(* assembled (helpers), screened and summarised (index.ts), and how a      *)
(* target takes its configuration (mappers).  Texts are opaque values, ""  *)
(* the one that is blank after trim(); markup is reduced to what the       *)
(* selectors tell apart.                                                   *)
(***************************************************************************)
EXTENDS Absent

-----------------------------------------------------------------------------
\* Sections.  A section is [title, blocks]; untitled has title None.

Section(title, blocks) == [title |-> title, blocks |-> blocks]

NoSections == [sections |-> <<>>, current |-> None]

\* The section in progress is kept if it has blocks.
Finalized(state) ==
  IF state.current = None \/ state.current.blocks = <<>> THEN state.sections
  ELSE Append(state.sections, state.current)

AddTitle(state, title) ==
  [sections |-> Finalized(state), current |-> Section(title, <<>>)]

AddBlock(state, text) ==
  [state EXCEPT !.current =
     LET section == OrElse(state.current, Section(None, <<>>)) IN
     [section EXCEPT !.blocks = Append(@, text)]]

\* jobs.ch: a child of the container is the sequence of its spans, and a span is
\* [text, isTitle (in p > strong), plain (in a p without strong), inItem (in a li)].
\* The first child is the call-to-action box.
parseDescriptionSections(children) ==
  LET spans == IF children = <<>> THEN <<>> ELSE FlattenSeq(Tail(children))
      Step(state, span) ==
        IF span.text = "" THEN state
        ELSE IF span.isTitle THEN AddTitle(state, span.text)
        ELSE IF span.plain \/ span.inItem THEN AddBlock(state, span.text)
        ELSE state
  IN Finalized(FoldLeft(Step, NoSections, spans))

\* jobich.ch: a line is [text, short (at most 40 characters and 5 words)]; a short one
\* before an empty line is a title.
IsTitleLine(lines, i) == lines[i].short /\ i < Len(lines) /\ lines[i + 1].text = ""

groupDescriptionLines(lines) ==
  LET Step(state, i) ==
        IF lines[i].text = "" THEN state
        ELSE IF IsTitleLine(lines, i) THEN AddTitle(state, lines[i].text)
        ELSE AddBlock(state, lines[i].text)
  IN Finalized(FoldLeftDomain(Step, NoSections, lines))

-----------------------------------------------------------------------------
\* Information items.  An item is [label, value].

Item(label, value) == [label |-> label, value |-> value]

Visible(spans) == SelectSeq(spans, LAMBDA s : ~s.svg /\ s.text # "")

\* jobs.ch: a list item is the sequence of its spans [text, svg]; None is a page
\* without the list.
parseInformationItems(listItems) ==
  IF listItems = None THEN <<>>
  ELSE LET ItemOf(spans) ==
             LET texts == Visible(spans) IN
             CASE Len(texts) >= 2 -> <<Item(texts[1].text, texts[2].text)>>
               [] Len(texts) = 1 -> <<Item("", texts[1].text)>>
               [] OTHER -> <<>>
       IN FlattenSeq(Mapped(ItemOf, listItems))

\* The first span of the link, an empty text included; the first visible one of the logo.
parseCompanyNameFromLink(spans) == IF spans = <<>> THEN None ELSE spans[1].text

parseCompanyNameFromVacancyLogo(spans) ==
  IF Visible(spans) = <<>> THEN None ELSE Visible(spans)[1].text

\* link and logo are the spans of the elements, None where the page has none.
extractCompanyName(link, logo) ==
  LET fromLink == IF link = None THEN None ELSE parseCompanyNameFromLink(link)
      fromLogo == IF logo = None THEN None ELSE parseCompanyNameFromVacancyLogo(logo)
  IN IF fromLink \notin {None, ""} THEN fromLink ELSE fromLogo

\* scrapeDetailListing(): the company follows the information items, blank if unknown.
detailInformations(listItems, link, logo) ==
  Append(parseInformationItems(listItems), Item("Company", OrElse(extractCompanyName(link, logo), "")))

\* Mutant: the position is counted among the spans that are kept.
PositionalLabelOfKept(spans, i, labels, default) ==
  LET kept == Cardinality({j \in 1..i : spans[j].text # ""}) IN
  IF kept \in DOMAIN labels THEN labels[kept] ELSE default

PositionalLabel(spans, i, labels, default) ==
  IF i \in DOMAIN labels THEN labels[i] ELSE default

\* jobich.ch: a span of a block is [text, class]; blank ones keep their position.
extractInfoBlock(spans, labels, default) ==
  LET Label(i) ==
        CASE spans[i].class = "strong" -> "Company"
          [] spans[i].class = "source" -> "Source"
          [] spans[i].class = "industry" -> "Industry"
          [] OTHER -> PositionalLabel(spans, i, labels, default)
      items == [i \in DOMAIN spans |-> Item(Label(i), spans[i].text)]
  IN SelectSeq(items, LAMBDA item : item.value # "")

metaLabels == <<"Company", "Location", "Source", "Posted">>

overlayInformations(meta, tags) ==
  extractInfoBlock(meta, metaLabels, "") \o extractInfoBlock(tags, <<>>, "Tag")

-----------------------------------------------------------------------------
\* Assembling a listing

\* The body: the parts that are not empty, cut at maxChars; a part counts as one character.
formatListingBodyFromSections(sections, infos, maxChars) ==
  LET ofSection(s) == (IF s.title \in {None, ""} THEN <<>> ELSE <<s.title>>) \o s.blocks
      parts == SelectSeq(FlattenSeq(Mapped(ofSection, sections)), LAMBDA p : p # "") \o infos
  IN SubSeq(parts, 1, IF Len(parts) <= maxChars THEN Len(parts) ELSE maxChars)

FieldName(label) == IF label = "" THEN "Field" ELSE label

\* fields[key] is extended with "; " if it exists: a sequence of values here.
WithField(fields, item) ==
  LET key == FieldName(item.label) IN
  [k \in DOMAIN fields \cup {key} |->
     IF k # key THEN fields[k]
     ELSE IF k \in DOMAIN fields THEN Append(fields[k], item.value) ELSE <<item.value>>]

informationsToFields(infos) == FoldLeft(WithField, <<>>, infos)

-----------------------------------------------------------------------------
\* Screening.  A listing is [ok, title, text]; a text is [length, words]: its trimmed
\* length and the normalised keywords it includes.

Includes(text, keyword) == keyword = "" \/ keyword \in text.words

Mentions(text, keywords) == \E i \in DOMAIN keywords : Includes(text, keywords[i])

reasonCodes(listing, keywords, minTextLength) ==
  IF ~listing.ok THEN <<"LISTING_ERROR">>
  ELSE (IF listing.title.length = 0 THEN <<"EMPTY_TITLE">> ELSE <<>>)
       \o (IF listing.text.length < minTextLength THEN <<"TEXT_TOO_SHORT">> ELSE <<>>)
       \o (IF Mentions(listing.title, keywords) \/ Mentions(listing.text, keywords) THEN <<>>
           ELSE <<"KEYWORDS_NOT_IN_TITLE_OR_TEXT">>)

buildScreen(listing, keywords, minTextLength) ==
  LET codes == reasonCodes(listing, keywords, minTextLength) IN
  [passed |-> codes = <<>>, reasonCodes |-> codes]

Counted(counts, code) ==
  [c \in DOMAIN counts \cup {code} |->
     (IF c \in DOMAIN counts THEN counts[c] ELSE 0) + (IF c = code THEN 1 ELSE 0)]

Summarised(summary, screen) ==
  [total |-> summary.total + 1,
   passed |-> summary.passed + (IF screen.passed THEN 1 ELSE 0),
   rejected |-> summary.rejected + (IF screen.passed THEN 0 ELSE 1),
   reasonCounts |-> FoldLeft(Counted, summary.reasonCounts, screen.reasonCodes)]

emptySummary == [total |-> 0, passed |-> 0, rejected |-> 0, reasonCounts |-> <<>>]

buildSummary(screens) == FoldLeft(Summarised, emptySummary, screens)

-----------------------------------------------------------------------------
\* The configuration of a target: None is a missing field.

mapToKeywords(targetKeywords, toolKeywords) ==
  IF targetKeywords \in {None, <<>>} /\ toolKeywords \in {None, <<>>} THEN None
  ELSE OrElse(toolKeywords, <<>>) \o OrElse(targetKeywords, <<>>)

mapToMaxPages(targetMaxPages, toolMaxPages) == OrElse(targetMaxPages, toolMaxPages)

-----------------------------------------------------------------------------
\* Properties, for every input

\* The blocks of a list of sections, in order, each with the title it stands under.
TitledBlocks(sections) ==
  LET ofSection(s) == [i \in DOMAIN s.blocks |-> <<s.title, s.blocks[i]>>]
  IN FlattenSeq(Mapped(ofSection, sections))

\* The last title before position i, or None.
TitleBefore(titles, i, text(_)) ==
  LET before == {j \in titles : j < i} IN
  IF before = {} THEN None ELSE text(CHOOSE j \in before : \A k \in before : k <= j)

\* What a description's positions say: each content in order, under the last title above.
DescriptionOf(n, contents, titles, text(_)) ==
  LET ordered == SelectSeq([i \in 1..n |-> i], LAMBDA i : i \in contents)
  IN [p \in DOMAIN ordered |-> <<TitleBefore(titles, ordered[p], text), text(ordered[p])>>]

NoEmptySection(sections) == \A i \in DOMAIN sections : sections[i].blocks # <<>>

\* No content line of a jobich.ch description is lost, reordered or put under another
\* title than the last one above it.
LinesAreKept(lines) ==
  LET text(i) == lines[i].text
      titles == {i \in DOMAIN lines :
                   lines[i].short /\ text(i) # "" /\ i < Len(lines) /\ text(i + 1) = ""}
      contents == {i \in DOMAIN lines : text(i) # ""} \ titles
      sections == groupDescriptionLines(lines)
  IN /\ TitledBlocks(sections) = DescriptionOf(Len(lines), contents, titles, text)
     /\ NoEmptySection(sections)

\* The text stored with a listing reads as the page: its lines in their order, without the
\* titles nothing stands under, then the information items, and no more than the cap.
BodyReadsAsPage(lines, infos, maxChars) ==
  LET body == formatListingBodyFromSections(groupDescriptionLines(lines), infos, maxChars)
      title(i) == IsTitleLine(lines, i)
      bare(i) == title(i) /\ \A j \in i + 1..Len(lines) :
                   (lines[j].text # "" /\ ~title(j)) => \E k \in i + 1..j : lines[k].text # "" /\ title(k)
      read == AtPositions(Mapped(LAMBDA l : l.text, lines), LAMBDA i : lines[i].text # "" /\ ~bare(i))
  IN body = SubSeq(read \o infos, 1, Len(body)) /\ Len(body) <= maxChars
       /\ (Len(body) < maxChars => body = read \o infos)

\* The same of a jobs.ch description, whichever children its spans are in.
SpansAreKept(children) ==
  LET spans == IF children = <<>> THEN <<>> ELSE FlattenSeq(Tail(children))
      text(i) == spans[i].text
      titles == {i \in DOMAIN spans : text(i) # "" /\ spans[i].isTitle}
      contents == {i \in DOMAIN spans : text(i) # "" /\ (spans[i].plain \/ spans[i].inItem)} \ titles
      sections == parseDescriptionSections(children)
  IN /\ TitledBlocks(sections) = DescriptionOf(Len(spans), contents, titles, text)
     /\ NoEmptySection(sections)

\* A value stands in the field of its label, in order, and none is overwritten
\* (informationsToFields: "so nothing is silently overwritten").
NoFieldIsOverwritten(infos) ==
  LET fields == informationsToFields(infos) IN
  \A key \in DOMAIN fields \cup {FieldName(infos[i].label) : i \in DOMAIN infos} :
    fields[key] = Mapped(LAMBDA item : item.value,
                         SelectSeq(infos, LAMBDA item : FieldName(item.label) = key))

\* What jobs.ch shows of a vacancy is read as it is shown, an item without a label too, and the
\* company comes last, from its link or, where that is blank, from the logo.  A label whose
\* value is blank reads as a value without a label; only an item that is all blank is left out.
DetailsAreRead(infos, link, logo) ==
  LET span(text) == [text |-> text, svg |-> FALSE]
      icon == [text |-> "", svg |-> TRUE]
      shown(info) == (IF info.label = "" THEN <<icon>> ELSE <<span(info.label)>>) \o <<span(info.value)>>
      company == IF link \notin {None, ""} THEN link ELSE OrElse(logo, "")
      element(text) == IF text = None THEN None ELSE <<span(text)>>
      read == detailInformations(Mapped(shown, infos), element(link), element(logo))
      legible == SelectSeq(infos, LAMBDA info : info.label # "" \/ info.value # "")
      asItem(info) == IF info.value = "" THEN Item("", info.label) ELSE info
  IN /\ read = Append(Mapped(asItem, legible), Item("Company", company))
     /\ NoFieldIsOverwritten(read)

\* A missing span does not shift the labels of those after it: where the page gives a
\* location, it stands under "Location" whatever else is blank.
LabelsKeepTheirPlace(spans) ==
  LET items == overlayInformations(spans, spans) IN
  \A i \in DOMAIN spans :
    (i <= 4 /\ spans[i].text # "" /\ spans[i].class = "plain") =>
      {Item(metaLabels[i], spans[i].text), Item("Tag", spans[i].text)} \subseteq ToSet(items)

\* The summary accounts for every listing and every reason, and a listing passes only
\* if no reason was found against it.
SummaryAddsUp(listings, keywords, minTextLength) ==
  LET screens == Mapped(LAMBDA l : buildScreen(l, keywords, minTextLength), listings)
      summary == buildSummary(screens)
      Having(code) == {i \in DOMAIN screens : Contains(screens[i].reasonCodes, code)}
  IN /\ summary.total = Len(listings)
     /\ summary.passed + summary.rejected = summary.total
     /\ summary.passed = Cardinality({i \in DOMAIN screens : screens[i].reasonCodes = <<>>})
     /\ \A i \in DOMAIN listings : ~listings[i].ok => ~screens[i].passed
     /\ \A code \in DOMAIN summary.reasonCounts :
          summary.reasonCounts[code] = Cardinality(Having(code)) /\ Having(code) # {}

-----------------------------------------------------------------------------
\* The detail sheet of a job: the results of a target as ScraperTarget.tsx, its mapper and
\* Indicator.tsx show them, over the screens and the summary stored with them.

\* A result: the listing, its screen (None where it was not screened), and its url.
Screened(listing, screen, url) == [listing |-> listing, screen |-> screen, url |-> url]

\* mapToRow(): the message of an error stands where the title would.
mapToRow(result) ==
  [title |-> IF result.listing.ok THEN result.listing.title ELSE "error",
   url |-> IF result.url \in {None, ""} THEN "n/a" ELSE result.url,
   reasonCodes |-> IF result.screen = None THEN <<>> ELSE result.screen.reasonCodes,
   passed |-> result.screen # None /\ result.screen.passed]

isPassedRow(result) == mapToRow(result).passed

\* The passed rows, then the failed ones, each in the order of the results.
rows(results) ==
  LET passed == SelectSeq(results, isPassedRow)
      failed == SelectSeq(results, LAMBDA r : ~isPassedRow(r)) IN
  Mapped(mapToRow, passed \o failed)

\* The codes of a row that did not pass show when the pointer is over its dot.
popover(row) == IF row.passed THEN <<>> ELSE row.reasonCodes

\* The table shows every result once, as many green dots as the summary beside it counts
\* passed, none below a red one, and a red dot always says why.
TableMatchesSummary(listings, keywords, minTextLength) ==
  LET screens == Mapped(LAMBDA l : buildScreen(l, keywords, minTextLength), listings)
      summary == buildSummary(screens)
      shown == rows([i \in DOMAIN listings |-> Screened(listings[i], screens[i], "u")])
      green == {i \in DOMAIN shown : shown[i].passed} IN
  /\ Len(shown) = summary.total
  /\ green = 1..summary.passed
  /\ \A i \in DOMAIN shown \ green : popover(shown[i]) # <<>>

=============================================================================
