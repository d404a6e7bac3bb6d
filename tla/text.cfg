\* Every string of a few characters of each alphabet.
SPECIFICATION Spec
CONSTANTS
  Alphabets <- MCAlphabets
  MaxChars <- MCMaxChars
  MaxLines = {97, 104}
  Nick <- MCNick
  Chan <- MCChan
  Host <- MCHost
  Gateway <- MCGateway
INVARIANTS LinesWhole LineRead AddressesRight BodiesRight
\* The strings have a maximal length.
CHECK_DEADLOCK FALSE
