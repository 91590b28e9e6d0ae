--------------------------- MODULE DocumentParsing ---------------------------
(***************************************************************************)
(* FileParserService and its parsers: an uploaded file becomes Markdown.     *)
(* A file is the structure its library reports (pdf-parse, the XML of a      *)
(* slide, exceljs), the Markdown a sequence of blocks.                       *)
(***************************************************************************)
EXTENDS Naturals, Sequences, FiniteSets, SequencesExt, Selecting

CONSTANTS
    Formats,        \* extensions of uploaded files, supported or not
    Pages,          \* bound: pages of a PDF
    Images,         \* bound: images of a page
    SlideNumbers,   \* the N of slideN.xml
    Rows, Cols      \* bounds: rows and columns of a sheet

ASSUME ParsingAssumption ==
    /\ {Pages, Images, Rows, Cols} \cup SlideNumbers \subseteq Nat
    /\ IsFiniteSet(SlideNumbers)

VARIABLES
    file,           \* the uploaded file
    markdown,       \* the blocks it was turned into
    parsed          \* "no", "yes", or "refused" with a message

parsingVars == <<file, markdown, parsed>>

Upto(S, n) == UNION {[1..k -> S] : k \in 0..n}
Block(kind, at, n) == [kind |-> kind, at |-> at, n |-> n]
Blocks(kind, at, n) == [i \in 1..n |-> Block(kind, at, i)]

-----------------------------------------------------------------------------
(* parsePdf.  An image is good, too small (or without data), or cannot be    *)
(* uploaded; reading all the images may fail, and reading the tables.        *)

PageType == [text : BOOLEAN, images : Upto({"good", "small", "lost"}, Images)]
PdfType == [format : {"pdf"}, pages : Upto(PageType, Pages), paged : BOOLEAN,
            unread : BOOLEAN, drawn : BOOLEAN, tables : 0..2]

\* Which images of a page have an URL, in their order.
Uploaded(page) == Only([i \in DOMAIN page.images |-> i],
                       {i \in DOMAIN page.images : page.images[i] = "good"})

PageImages(pdf, p) ==
    IF pdf.unread THEN <<>>
    ELSE LET urls == Uploaded(pdf.pages[p])
         IN  [i \in DOMAIN urls |-> Block("image", p, urls[i])]

PageText(pdf, p) == IF pdf.pages[p].text THEN <<Block("text", p, 0)>> ELSE <<>>

\* Mutant: the images of all pages come after the text
PdfBody_ImagesLast(pdf) ==
    FlattenSeq([p \in DOMAIN pdf.pages |-> PageText(pdf, p)])
        \o FlattenSeq([p \in DOMAIN pdf.pages |-> PageImages(pdf, p)])

PdfBody(pdf) ==
    LET page(p) == PageText(pdf, p) \o PageImages(pdf, p)
        images == FlattenSeq([p \in DOMAIN pdf.pages |-> PageImages(pdf, p)])
    IN  IF pdf.paged /\ pdf.pages # <<>> THEN FlattenSeq([p \in DOMAIN pdf.pages |-> page(p)])
        ELSE (IF \E p \in DOMAIN pdf.pages : pdf.pages[p].text
              THEN <<Block("text", 0, 0)>> ELSE <<>>) \o images

\* drawn: the text itself shows a table rule, and the tables are left out.
ParsePdf(pdf) ==
    PdfBody(pdf) \o (IF pdf.drawn THEN <<>> ELSE Blocks("table", Pages + 1, pdf.tables))

-----------------------------------------------------------------------------
(* parsePptx.  A title shape has one or more paragraphs, which its title     *)
(* joins; the paragraphs of a slide include those of its titles.  Texts are  *)
(* sequences of paragraphs.                                                  *)

SlideType == [tables : 0..1, titles : Upto({<<"a">>, <<"b">>, <<"a", "b">>}, 1),
              others : Upto({"a", "c"}, 1)]
PptxType == [format : {"pptx"}, slides : UNION {[N -> SlideType] : N \in SUBSET SlideNumbers}]

\* The slides in the order of their numbers.
SlidePaths(deck) ==
    LET numbers == DOMAIN deck.slides
    IN  [n \in 1..Cardinality(numbers) |->
           CHOOSE s \in numbers : Cardinality({r \in numbers : r < s}) = n - 1]

Paragraphs(slide) == FlattenSeq(slide.titles) \o slide.others

Slide(slide, at) ==
    LET lines == Only(Paragraphs(slide), {t \in {"a", "b", "c"} : <<t>> \notin Range(slide.titles)})
    IN  <<Block("slide", at, 0)>> \o Blocks("table", at, slide.tables)
          \o [i \in DOMAIN slide.titles |-> Block("title", at, slide.titles[i])]
          \o [i \in DOMAIN lines |-> Block("line", at, <<lines[i]>>)]

\* A file without slides is left to officeparser, which finds none either.
ParsePptx(deck) ==
    LET paths == SlidePaths(deck)
    IN  FlattenSeq([i \in DOMAIN paths |-> Slide(deck.slides[paths[i]], paths[i])])

-----------------------------------------------------------------------------
(* parseXlsx: one sheet, whose rows end at their last cell.                  *)

Cells == {"plain", "none", "formula", "error"}
XlsxType == [format : {"xlsx"}, rows : Upto(Upto(Cells, Cols), Rows)]

\* A formula shows its result, an error value the text of its object.
CellToString(cell) ==
    CASE cell = "plain" -> "text" [] cell = "none" -> "" [] cell = "formula" -> "result"
      [] cell = "error" -> "[object Object]"

Width(rows) == CHOOSE w \in 0..Cols :
    /\ \A r \in DOMAIN rows : Len(rows[r]) <= w
    /\ w # 0 => \E r \in DOMAIN rows : Len(rows[r]) = w

\* Rows without cells are skipped, the others padded to the longest.
ParseXlsx(sheet) ==
    LET rows == Only(sheet.rows, Upto(Cells, Cols) \ {<<>>})
        shown(row) == [c \in 1..Width(rows) |->
                         IF c <= Len(row) THEN CellToString(row[c]) ELSE ""]
    IN  <<Block("sheet", 0, 0)>> \o [i \in DOMAIN rows |-> Block("row", i, shown(rows[i]))]

-----------------------------------------------------------------------------
\* Text files are taken as they are; docx and images are converted by mammoth
\* and by a vision model, and may come out empty or fail.
OtherType == [format : Formats \ {"pdf", "pptx", "xlsx"}, size : 0..1, fails : BOOLEAN]
Supported == {"txt", "md", "docx", "pdf", "pptx", "xlsx", "png"}

ParseOther(other) ==
    IF other.size = 0 \/ (other.fails /\ other.format \notin {"txt", "md"})
    THEN <<>> ELSE <<Block("text", 0, 0)>>

ParsingInit ==
    /\ file \in PdfType \cup PptxType \cup XlsxType \cup OtherType
    /\ markdown = <<>> /\ parsed = "no"

Markdown == CASE file.format = "pdf" -> ParsePdf(file)
              [] file.format = "pptx" -> ParsePptx(file)
              [] file.format = "xlsx" -> ParseXlsx(file)
              [] OTHER -> ParseOther(file)

\* A file of another format is refused, and one that gives no text.
Parse ==
    /\ parsed = "no"
    /\ markdown' = IF file.format \in Supported THEN Markdown ELSE <<>>
    /\ parsed' = IF markdown' = <<>> THEN "refused" ELSE "yes"
    /\ UNCHANGED file

ParsingNext == Parse

-----------------------------------------------------------------------------
ParsingTypeOK ==
    /\ parsed \in {"no", "yes", "refused"}
    /\ \A i \in DOMAIN markdown : DOMAIN markdown[i] = {"kind", "at", "n"}

Is(kind) == {i \in DOMAIN markdown : markdown[i].kind = kind}

\* The pages of a PDF follow one another, on each the text before the images,
\* and every image that was uploaded is there once, at its place; a failure to
\* read images or to upload one loses nothing else.
PdfInOrder ==
    LET place(b) == <<b.at, IF b.kind = "text" THEN 0 ELSE b.n>>
        before(a, b) == a[1] < b[1] \/ (a[1] = b[1] /\ a[2] < b[2])
        good(p, i) == p \in DOMAIN file.pages /\ i \in DOMAIN file.pages[p].images
                          /\ file.pages[p].images[i] = "good" /\ ~file.unread
        wanted == {at \in (1..Pages) \X (1..Images) : good(at[1], at[2])}
    IN  /\ \A i, j \in DOMAIN markdown : i < j => before(place(markdown[i]), place(markdown[j]))
        /\ {place(markdown[i]) : i \in Is("image")} = wanted
        /\ \A p \in DOMAIN file.pages : file.pages[p].text =>
             \E i \in Is("text") : markdown[i].at \in {0, p}

\* Slides come in the order of their numbers, and every paragraph of a slide
\* is in a title or a line, never in both unless its title has several.
SlidesInOrder ==
    /\ \A i, j \in DOMAIN markdown : i < j => markdown[i].at <= markdown[j].at
    /\ \A s \in DOMAIN file.slides, t \in {"a", "b", "c"} :
         LET in(kind) == \E i \in Is(kind) : markdown[i].at = s /\ t \in Range(markdown[i].n)
         IN  t \in Range(Paragraphs(file.slides[s])) <=> in("title") \/ in("line")
    /\ \A i \in Is("title"), j \in Is("line") :
         markdown[i].at = markdown[j].at => markdown[i].n # markdown[j].n

\* The rows of a sheet are equally long and keep the columns of their cells.
SheetIsTable ==
    /\ \A i, j \in Is("row") : Len(markdown[i].n) = Len(markdown[j].n)
    /\ \A r \in DOMAIN file.rows : file.rows[r] # <<>> =>
         \E i \in Is("row") : \A c \in DOMAIN file.rows[r] :
             markdown[i].n[c] = CellToString(file.rows[r][c])

\* Of a parsed file no page, uploaded image, paragraph or cell is lost or out of
\* place.  An image comes once, and so does a title of one paragraph; one of
\* several comes again as text.  Tables of PDFs and slides are not compared.
ParsedInOrder ==
    parsed = "yes" => /\ file.format = "pdf" => PdfInOrder
                      /\ file.format = "pptx" => SlidesInOrder
                      /\ file.format = "xlsx" => SheetIsTable
=============================================================================
