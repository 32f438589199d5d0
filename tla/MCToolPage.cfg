\* Two conversions at once, one text and the empty editor, two formats, three tools,
\* one file being read.
SPECIFICATION FairSpec
CONSTANTS
  json = json
  xlsx = xlsx
  image = image
  csvFormat = csvFormat
  yamlFormat = yamlFormat
  Tools = {json, xlsx, image}
  NoTool = NoTool
  NeedsFile = {image}
  Kind <- MCKind
  Inputs = {one}
  Empty = Empty
  Formats = {csvFormat, yamlFormat}
  OutputFormats <- MCOutputFormats
  DefaultFormat <- MCDefaultFormat
  Runs = {k1, k2}
  MaxDrops = 1
  NoResult = NoResult
  NoRun = NoRun
INVARIANTS
  TypeOK
  NoSpinnerWithoutRun
  OneConversion
  ProgressWhileConverting
  ShownMatchesPage
PROPERTIES
  ConvertingEnds
