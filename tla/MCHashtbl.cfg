SPECIFICATION HashSpec
CONSTANTS
  HashNodes = {n1, n2}
  HashKeys <- MCHashKeys
  HashMin = 2
  HashMax = 4
  HashThresholds = {2}
  HashUnmade = HashUnmade
  HashNoKey = HashNoKey
PROPERTY RefreshedIsFound
